---- MODULE Spec2Model ----
\* Truss: the reconciliation engine that mirrors one Mastodon account's posts
\* onto Bluesky.  The model covers the hash-based bridge loop (Bridge.Run and
\* Bridge.ProcessPost), the database it persists to, the two platforms as far
\* as the bridge observes them, and the pure splitContent function.
EXTENDS Integers, Sequences, FiniteSets, TLC

VARIABLES
    statuses,       \* Mastodon: the account's statuses, statuses[i] has id i
    edits,          \* Mastodon: edits made so far
    created,        \* Bluesky: every record ever created, created[k] has rkey k
    live,           \* Bluesky: rkeys of the records that exist (not deleted)
    postMappings,   \* db table post_mappings: mastodon_id -> bluesky_ids
    mapOrder,       \* db table post_mappings: mastodon ids by created_at, oldest first
    contentHashes,  \* db table state, keys content_hash_<id>
    savedLastID,    \* db table state, key last_seen_id (0: no row)
    lastID,         \* Run: the in-memory cursor (0: "")
    startTime,      \* Run: the statuses with an id up to it were created before the run
    pc,             \* Run / ProcessPost: the position of the single worker
    batch,          \* Run: posts of the new-post batch not yet processed, newest first
    recentIDs,      \* Run: ids of the edit check not yet handled
    pp,             \* ProcessPost: its argument, its locals and its caller
    calls,          \* ghost: the destination calls ProcessPost made for its post
    lookups,        \* ghost: the calls ProcessPost made to find the parent of its post
    handled,        \* ghost: the post the loops handled last and what it came to
    synced,         \* ghost: id -> hash of the content its mapping and hash were stored for
    cancelled,      \* ctx.Done() is closed
    faults,         \* collaborator and persistence calls that failed so far
    splitInput,     \* splitContent: the content it is called with
    splitResult,    \* splitContent: the parts it returned (<<>> before the call)
    lookupInput,    \* the parent lookup: what its collaborators answer
    lookupResult,   \* the parent lookup: what it came to (<<>> before the call)
    editTable,      \* db table edits of the lineage-based bridge: edit_id -> original_id
    cleanInput,     \* the status whose content the Mastodon client is to clean
    cleanResult,    \* the content cleanHTML made of it
    client          \* the Bluesky client: its session, the clock, the requests it sent

\* ------------------------------------------------------------------ bounds

\* Statuses the account publishes during a run.
MaxPosts == 2
\* Edits the account makes to its statuses during a run.
MaxEdits == 1
\* Collaborator and persistence calls that fail during a run.
MaxFaults == 1
\* Repetitions of the tail word in the inputs of splitContent.
MaxRep == 10

\* --------------------------------------------------------------- strings
\* A Go string is a sequence of bytes; len() counts bytes.

Word(n) == [i \in 1..n |-> "a"]

RECURSIVE Repeat(_, _)
Repeat(w, k) == IF k = 0 THEN <<>> ELSE <<w>> \o Repeat(w, k - 1)

\* The words of ws (a sequence of word lengths) separated by single spaces.
RECURSIVE Words(_)
Words(ws) ==
    IF ws = <<>> THEN <<>>
    ELSE IF Len(ws) = 1 THEN Word(ws[1])
    ELSE Word(ws[1]) \o <<" ">> \o Words(Tail(ws))

DigitChar(d) == <<"0", "1", "2", "3", "4", "5", "6", "7", "8", "9">>[d + 1]

\* fmt.Sprintf("%d", n) for n >= 0
RECURSIVE Itoa(_)
Itoa(n) == IF n < 10 THEN <<DigitChar(n)>> ELSE Itoa(n \div 10) \o <<DigitChar(n % 10)>>

\* fmt.Sprintf(" (%d/%d)", i, total)
Suffix(i, total) == <<" ", "(">> \o Itoa(i) \o <<"/">> \o Itoa(total) \o <<")">>

Min(a, b) == IF a < b THEN a ELSE b

\* s[from:] and s[:to] with Go's 0-based indices
GoFrom(s, from) == SubSeq(s, from + 1, Len(s))
GoTo(s, to) == SubSeq(s, 1, to)
\* s[i] with Go's 0-based index
GoAt(s, i) == s[i + 1]

\* ---------------------------------------------------------- splitContent

maxLength == 300

estimatedTotal(content) == (Len(content) + maxLength - 1) \div (maxLength - 10)

suffixSize(content) == Len(Suffix(estimatedTotal(content), estimatedTotal(content)))

effectiveMaxLength(content) == maxLength - suffixSize(content)

\* A faulty variant of BackScan: the first space of the window is taken.
BackScanFirst(remaining, eff) ==
    LET hits == {b \in 1..eff : GoAt(remaining, b) = " "}
    IN IF hits = {} THEN 0 ELSE CHOOSE b \in hits : \A c \in hits : b <= c

\* "Move back to find a space": the largest b <= eff with remaining[b] a space,
\* or 0 when there is none at 1..eff.
BackScan(remaining, eff) ==
    LET hits == {b \in 1..eff : GoAt(remaining, b) = " "}
    IN IF hits = {} THEN 0 ELSE CHOOSE b \in hits : \A c \in hits : c <= b

\* "Try forward for a space instead": the first space at eff/2 .. min(eff,len)-1,
\* or eff/2 when there is none.
ForwardScan(remaining, eff) ==
    LET hits == {i \in (eff \div 2)..(Min(eff, Len(remaining)) - 1) : GoAt(remaining, i) = " "}
    IN IF hits = {} THEN eff \div 2 ELSE CHOOSE i \in hits : \A j \in hits : i <= j

\* A faulty variant of breakPoint: any space found by the backward scan is taken.
breakPointBack(remaining, eff) ==
    LET back == BackScan(remaining, eff)
    IN IF back = 0 THEN eff ELSE back

breakPoint(remaining, eff) ==
    LET back == BackScan(remaining, eff)
    IN IF back < eff \div 2
       THEN LET fwd == ForwardScan(remaining, eff)
            IN IF fwd < eff \div 2 \/ fwd = eff \div 2 THEN eff ELSE fwd
       ELSE back

\* A faulty variant of NextRemaining: the character at the cut is skipped
\* whatever it is.
NextRemainingSkip(remaining, bp) == GoFrom(remaining, bp + 1)

\* "Move to next": the space at the cut is skipped, not copied.
NextRemaining(remaining, bp) ==
    IF bp < Len(remaining) /\ GoAt(remaining, bp) = " "
    THEN GoFrom(remaining, bp + 1)
    ELSE GoFrom(remaining, bp)

\* The loop "for len(remaining) > 0": the parts before their suffixes.
RECURSIVE CutParts(_, _)
CutParts(remaining, eff) ==
    IF Len(remaining) = 0 THEN <<>>
    ELSE IF Len(remaining) <= eff THEN <<remaining>>
    ELSE LET bp == breakPoint(remaining, eff)
         IN <<GoTo(remaining, bp)>> \o CutParts(NextRemaining(remaining, bp), eff)

\* A faulty variant of AddIndicators: the parts are numbered from 0.
AddIndicatorsFromZero(parts) ==
    [i \in 1..Len(parts) |-> parts[i] \o Suffix(i - 1, Len(parts))]

\* "Now add the part indicators"
AddIndicators(parts) == [i \in 1..Len(parts) |-> parts[i] \o Suffix(i, Len(parts))]

\* A faulty variant of splitContent: a text that fits is cut and numbered too.
splitContentAlways(content) ==
    AddIndicators(CutParts(content, effectiveMaxLength(content)))

splitContent(content) ==
    IF Len(content) <= maxLength THEN <<content>>
    ELSE AddIndicators(CutParts(content, effectiveMaxLength(content)))

\* ------------------------------------------------------------- contents
\* The normalized contents the account posts.  A status carries the name of its
\* content; TextOf gives the text.

Catalog == {"hi", "yo", "mid"}

\* A content whose first part comes out of splitContent longer than maxLength.
Oversize == "long"

TextOf ==
    [c \in Catalog \cup {Oversize} |->
        CASE c = "hi" -> Word(2)
          [] c = "yo" -> Word(3)
          [] c = "mid" -> Words(<<147, 147, 147>>)
          [] c = Oversize -> Words(<<294>> \o Repeat(147, 9))]

\* hashPostContent: hex(sha256(content)).  SHA-256 is modelled as a digest that
\* tells the texts of the catalog apart: the length and a position-weighted sum.
RECURSIVE WeightedSum(_, _, _)
WeightedSum(s, lo, hi) ==
    IF lo > hi THEN 0
    ELSE IF lo = hi THEN (IF s[lo] = " " THEN lo ELSE 0)
    ELSE LET mid == (lo + hi) \div 2
         IN WeightedSum(s, lo, mid) + WeightedSum(s, mid + 1, hi)

hashPostContent(content) == <<"sha256", Len(content), WeightedSum(content, 1, Len(content))>>

HashOf == [c \in Catalog \cup {Oversize} |-> hashPostContent(TextOf[c])]

PartsOf == [c \in Catalog \cup {Oversize} |-> splitContent(TextOf[c])]

\* "" as a hash: GetContentHash found no row, or failed
NoHash == <<>>

\* ------------------------------------------------------------- cleanHTML
\* Texts are sequences of characters.

NL == "\n"

\* strings.ReplaceAll(s, old, new): the matches of old, from the left, not
\* overlapping
RECURSIVE ReplaceAll(_, _, _)
ReplaceAll(s, old, new) ==
    IF Len(s) < Len(old) THEN s
    ELSE IF SubSeq(s, 1, Len(old)) = old
    THEN new \o ReplaceAll(SubSeq(s, Len(old) + 1, Len(s)), old, new)
    ELSE <<s[1]>> \o ReplaceAll(Tail(s), old, new)

\* The index of the first c in s at or after p; Len(s) + 1 when there is none
RECURSIVE IndexFrom(_, _, _)
IndexFrom(s, c, p) ==
    IF p > Len(s) THEN Len(s) + 1
    ELSE IF s[p] = c THEN p
    ELSE IndexFrom(s, c, p + 1)

\* bluemonday.StripTagsPolicy().Sanitize followed by html.UnescapeString: every
\* tag, from "<" to its ">", is dropped and the text between the tags is kept
\* (escaped by the first, unescaped by the second).  The texts of the model hold
\* whole tags only and no "&".
RECURSIVE Sanitize(_)
Sanitize(s) ==
    IF s = <<>> THEN <<>>
    ELSE IF s[1] = "<" /\ IndexFrom(s, ">", 1) <= Len(s)
    THEN Sanitize(SubSeq(s, IndexFrom(s, ">", 1) + 1, Len(s)))
    ELSE <<s[1]>> \o Sanitize(Tail(s))

\* A faulty variant of RemoveTag: only the bare hashtag is cut out.
RemoveTagBare(clean, tag) == ReplaceAll(clean, <<"#">> \o tag, <<>>)

\* "Remove the hashtag with various surrounding patterns": the seven
\* replacements made for one tag, in their order
RemoveTag(clean, tag) ==
    LET h == <<"#">> \o tag
        c1 == ReplaceAll(clean, <<" ">> \o h \o <<" ">>, <<" ">>)
        c2 == ReplaceAll(c1, <<" ">> \o h \o <<NL>>, <<" ", NL>>)
        c3 == ReplaceAll(c2, <<NL>> \o h \o <<" ">>, <<NL>>)
        c4 == ReplaceAll(c3, <<NL>> \o h \o <<NL>>, <<NL>>)
        c5 == ReplaceAll(c4, <<" ">> \o h, <<" ">>)
        c6 == ReplaceAll(c5, <<NL>> \o h, <<NL>>)
    IN ReplaceAll(c6, h, <<>>)

\* "for _, tag := range hashtags"
RECURSIVE RemoveTags(_, _)
RemoveTags(clean, hashtags) ==
    IF hashtags = <<>> THEN clean
    ELSE RemoveTags(RemoveTag(clean, Head(hashtags)), Tail(hashtags))

\* unicode.IsSpace for the characters of the model
IsSpace(c) == c \in {" ", NL}

\* strings.TrimSpace
RECURSIVE TrimLeft(_)
TrimLeft(s) == IF s # <<>> /\ IsSpace(s[1]) THEN TrimLeft(Tail(s)) ELSE s
RECURSIVE TrimRight(_)
TrimRight(s) ==
    IF s # <<>> /\ IsSpace(s[Len(s)]) THEN TrimRight(SubSeq(s, 1, Len(s) - 1)) ELSE s
TrimSpace(s) == TrimRight(TrimLeft(s))

LowerCase ==
    <<"a", "b", "c", "d", "e", "f", "g", "h", "i", "j", "k", "l", "m",
      "n", "o", "p", "q", "r", "s", "t", "u", "v", "w", "x", "y", "z">>
UpperCase ==
    <<"A", "B", "C", "D", "E", "F", "G", "H", "I", "J", "K", "L", "M",
      "N", "O", "P", "Q", "R", "S", "T", "U", "V", "W", "X", "Y", "Z">>
Digits == {"0", "1", "2", "3", "4", "5", "6", "7", "8", "9"}
IsLower(c) == \E k \in DOMAIN LowerCase : LowerCase[k] = c
ToUpper(c) == IF IsLower(c) THEN UpperCase[CHOOSE k \in DOMAIN LowerCase : LowerCase[k] = c] ELSE c

\* [\w\.-] and [\s,:;] of the pattern for leading mentions
IsNameChar(c) ==
    \/ IsLower(c)
    \/ \E k \in DOMAIN UpperCase : UpperCase[k] = c
    \/ c \in Digits \cup {"_", ".", "-"}
IsMentionSep(c) == IsSpace(c) \/ c \in {",", ":", ";"}

\* The position after the longest run of name characters, of blanks, from p
RECURSIVE SkipName(_, _)
SkipName(line, p) ==
    IF p <= Len(line) /\ IsNameChar(line[p]) THEN SkipName(line, p + 1) ELSE p
RECURSIVE SkipSpace(_, _)
SkipSpace(line, p) ==
    IF p <= Len(line) /\ IsSpace(line[p]) THEN SkipSpace(line, p + 1) ELSE p

\* "@" followed by a name character at p
AtName(line, p) == p + 1 <= Len(line) /\ line[p] = "@" /\ IsNameChar(line[p + 1])

\* One (@[\w\.-]+(?:@[\w\.-]+)?[\s,:;]?) at p: the position after it, p when
\* there is none
Mention(line, p) ==
    IF ~AtName(line, p) THEN p
    ELSE LET q == SkipName(line, p + 1)
             r == IF AtName(line, q) THEN SkipName(line, q + 1) ELSE q
         IN IF r <= Len(line) /\ IsMentionSep(line[r]) THEN r + 1 ELSE r

RECURSIVE Mentions(_, _)
Mentions(line, p) == IF Mention(line, p) = p THEN p ELSE Mentions(line, Mention(line, p))

\* pattern.ReplaceAllString(line, "") for ^(@...)+\s* , then "Capitalize first
\* letter of remaining text if needed"; only for a line whose trimmed text
\* starts with "@"
StripMentions(line) ==
    IF TrimSpace(line) = <<>> \/ TrimSpace(line)[1] # "@" THEN line
    ELSE LET q == Mentions(line, 1)
             rest == IF q = 1 THEN line ELSE SubSeq(line, SkipSpace(line, q), Len(line))
         IN IF rest = <<>> THEN rest ELSE <<ToUpper(rest[1])>> \o Tail(rest)

\* strings.Split(clean, "\n"), the lines stripped, strings.Join(lines, "\n")
RECURSIVE StripLines(_)
StripLines(clean) ==
    LET n == IndexFrom(clean, NL, 1)
    IN IF n > Len(clean) THEN StripMentions(clean)
       ELSE StripMentions(SubSeq(clean, 1, n - 1)) \o <<NL>>
            \o StripLines(SubSeq(clean, n + 1, Len(clean)))

\* regexp \n{3,} replaced by "\n\n"
RECURSIVE CollapseNewlines(_)
CollapseNewlines(s) ==
    IF Len(s) < 3 THEN s
    ELSE IF s[1] = NL /\ s[2] = NL /\ s[3] = NL THEN CollapseNewlines(Tail(s))
    ELSE <<s[1]>> \o CollapseNewlines(Tail(s))

\* cleanHTML(input, hashtags, isReply)
cleanHTML(input, hashtags, isReply) ==
    LET i1 == ReplaceAll(input, <<"<", "b", "r", ">">>, <<NL>>)
        i2 == ReplaceAll(i1, <<"<", "b", "r", "/", ">">>, <<NL>>)
        i3 == ReplaceAll(i2, <<"<", "b", "r", " ", "/", ">">>, <<NL>>)
        i4 == ReplaceAll(i3, <<"<", "/", "p", ">", "<", "p", ">">>, <<NL, NL>>)
        clean == RemoveTags(Sanitize(i4), hashtags)
        stripped == IF isReply THEN StripLines(clean) ELSE clean
    IN TrimSpace(CollapseNewlines(stripped))

\* status.InReplyToID is an interface{}: nil when the status has no parent,
\* a string otherwise.
Nil == [type |-> "nil", value |-> ""]
String(v) == [type |-> "string", value |-> v]

\* isReply := status.InReplyToID != "": the interface is compared with the
\* string "", to which it is equal only when it holds that string
isReply(inReplyToID) == ~(inReplyToID.type = "string" /\ inReplyToID.value = "")

\* The Content of the Post that GetNewPosts and GetPostWithEdits make of a status
PostContent(status) ==
    cleanHTML(status.content, status.tags, isReply(status.inReplyToID))

\* Before a status is chosen, before its content is cleaned
NoStatus == [content |-> <<>>, tags |-> <<>>, inReplyToID |-> Nil]
NotCleaned == [done |-> FALSE, content |-> <<>>]

\* -------------------------------------------------------- Bluesky client
\* The session of the client: accessJwt (0: ""), did (0: ""), expiresAt; now is
\* time.Now(), in hours; issued counts the sessions the server has created, so
\* that every session has its own token.  The ghosts op, sent and err tell of
\* the last operation: its name, the requests it sent, whether it returned an
\* error.

\* "Tokens typically expire after 2 hours, but let's be conservative": 1 hour
TokenLife == 1

\* The did of the account, as createSession returns it
AccountDID == 1

\* NewClient: "We'll authenticate on first use"
NewClient ==
    [accessJwt |-> 0, did |-> 0, expiresAt |-> 0, now |-> 0, issued |-> 0,
     op |-> "none", sent |-> <<>>, err |-> FALSE]

\* A request the client sent: its name, the token it carried, how it ended
Request(name, token, ok) == [name |-> name, token |-> token, ok |-> ok]

\* "If we have a valid token, no need to authenticate"
ValidToken(c) == c.accessJwt # 0 /\ c.now < c.expiresAt

\* A faulty variant of ensureAuth: a token that is held is taken as valid.
ensureAuthOnce(c, ok) ==
    IF c.accessJwt # 0 THEN [c |-> c, err |-> FALSE]
    ELSE IF ~ok
    THEN [c |-> [c EXCEPT !.sent = Append(@, Request("createSession", 0, FALSE))],
          err |-> TRUE]
    ELSE [c |-> [c EXCEPT !.accessJwt = c.issued + 1,
                          !.did = AccountDID,
                          !.expiresAt = c.now + TokenLife,
                          !.issued = c.issued + 1,
                          !.sent = Append(@, Request("createSession", 0, TRUE))],
          err |-> FALSE]

\* ensureAuth: nothing to do with a valid token; otherwise createSession is
\* requested, and only its success changes the session.
ensureAuth(c, ok) ==
    IF ValidToken(c) THEN [c |-> c, err |-> FALSE]
    ELSE IF ~ok
    THEN [c |-> [c EXCEPT !.sent = Append(@, Request("createSession", 0, FALSE))],
          err |-> TRUE]
    ELSE [c |-> [c EXCEPT !.accessJwt = c.issued + 1,
                          !.did = AccountDID,
                          !.expiresAt = c.now + TokenLife,
                          !.issued = c.issued + 1,
                          !.sent = Append(@, Request("createSession", 0, TRUE))],
          err |-> FALSE]

\* The operations of the client that start with ensureAuth
ClientOps == {"CreatePost", "CreateReply", "DeletePost", "LookupBridgedMastodonPost"}

\* One operation: "if err := c.ensureAuth(ctx); err != nil { return ... }", then
\* the request with "Bearer "+c.accessJwt.
Operation(c, op, authOK, reqOK) ==
    LET a == ensureAuth([c EXCEPT !.op = op, !.sent = <<>>, !.err = FALSE], authOK)
    IN IF a.err THEN [a.c EXCEPT !.err = TRUE]
       ELSE [a.c EXCEPT !.sent = Append(@, Request(op, a.c.accessJwt, reqOK)),
                        !.err = ~reqOK]

\* ------------------------------------------------------------ references
\* CreatePost and CreateReply return "uri|cid"; the pair is kept as a record.
\* The record created k-th has rkey k, uri k and cid -k.

NoRef == [uri |-> 0, cid |-> 0]
Ref(k) == [uri |-> k, cid |-> 0 - k]

\* DeletePost: the rkey is the last segment of the uri, whichever format it gets
Rkey(ref) == ref.uri

\* config.FilterHashtag
FilterHashtag == "truss"

\* The id of a status of another account (a reply parent never mirrored here).
Foreign == 0 - 1

\* The number of posts the edit check looks at: GetRecentPostsToCheckForEdits(10)
editCheckCount == 10

\* ---------------------------------------------------------------- state

bridgeVars ==
    <<statuses, edits, created, live, postMappings, mapOrder, contentHashes,
      savedLastID, lastID, startTime, pc, batch, recentIDs, pp, calls, lookups,
      handled, synced, cancelled, faults>>

srcVars == <<statuses, edits>>
dstVars == <<created, live>>
mapVars == <<postMappings, mapOrder>>
dbVars == <<mapVars, contentHashes, savedLastID>>
envVars ==
    <<cancelled, startTime, splitInput, splitResult, lookupInput, lookupResult, editTable,
      cleanInput, cleanResult, client>>

splitVars == <<splitInput, splitResult>>

lookupVars == <<lookupInput, lookupResult>>

cleanVars == <<cleanInput, cleanResult>>

vars == <<bridgeVars, splitVars, lookupVars, editTable, cleanVars, client>>

\* The post ProcessPost holds before its first call.
NoPost ==
    [id |-> 0, content |-> "hi", reblog |-> FALSE, visibility |-> "public",
     inReplyTo |-> 0, hashtags |-> {}]

\* ProcessPost's frame: post (the argument), caller ("new": the new-post batch,
\* "edit": the edit check), the locals contentHash, existingHash, parent
\* (parentUri, parentCid), last (lastUri, lastCid), bskyIDs, queue (the ids a
\* delete loop still has to visit), and the ghost clean: no call of this
\* ProcessPost has failed so far.
Idle ==
    [post |-> NoPost, caller |-> "new", contentHash |-> NoHash, existingHash |-> NoHash,
     parent |-> NoRef, last |-> NoRef, bskyIDs |-> <<>>, queue |-> <<>>, clean |-> TRUE]

\* What handling a post came to: "skipped" (reblog, non-public, no filter
\* hashtag), "unchanged" (ProcessPost found the stored hash equal), "same" (the
\* edit check found the stored hash equal), "noparent", "mirrored", "failed"
\* (a create failed), "unread" (the edit check could not fetch the post or read
\* its hash), "panic".  clean: no call made while handling it failed.
Handled(post, via, result, clean) ==
    [id |-> post.id, content |-> post.content, via |-> via, result |-> result,
     clean |-> clean]
\* The ghosts are cleared when a loop is through with its posts.
NoneHandled == Handled(NoPost, "new", "none", TRUE)

BridgeInit ==
    /\ statuses = <<>>
    /\ edits = 0
    /\ created = <<>>
    /\ live = {}
    /\ postMappings = <<>>
    /\ mapOrder = <<>>
    /\ contentHashes = <<>>
    /\ savedLastID = 0
    /\ lastID = 0
    /\ startTime = 0
    /\ pc = "select"
    /\ batch = <<>>
    /\ recentIDs = <<>>
    /\ pp = Idle
    /\ calls = <<>>
    /\ lookups = <<>>
    /\ handled = NoneHandled
    /\ synced = <<>>
    /\ cancelled = FALSE
    /\ faults = 0

\* A call to a collaborator or to the database succeeds (TRUE) or fails (FALSE).
Outcomes == IF faults < MaxFaults THEN {TRUE, FALSE} ELSE {TRUE}
Outcomes2 ==
    {o \in BOOLEAN \X BOOLEAN :
        (IF o[1] THEN 0 ELSE 1) + (IF o[2] THEN 0 ELSE 1) <= MaxFaults - faults}
Cost(ok) == IF ok THEN 0 ELSE 1

\* A call made with ctx (every Mastodon and Bluesky request): once ctx is
\* cancelled the request fails with context.Canceled.
CtxOutcomes == IF cancelled THEN {FALSE} ELSE Outcomes
CtxCost(ok) == IF ok \/ cancelled THEN 0 ELSE 1

\* ------------------------------------------------------------- Mastodon

\* The statuses the account may publish next.
StatusKinds ==
    {[content |-> c, reblog |-> FALSE, visibility |-> "public", inReplyTo |-> 0,
      hashtags |-> {FilterHashtag}] : c \in Catalog}
    \cup {[content |-> "hi", reblog |-> TRUE, visibility |-> "public", inReplyTo |-> 0,
           hashtags |-> {FilterHashtag}],
          [content |-> "hi", reblog |-> FALSE, visibility |-> "unlisted", inReplyTo |-> 0,
           hashtags |-> {FilterHashtag}],
          [content |-> "hi", reblog |-> FALSE, visibility |-> "public", inReplyTo |-> 0,
           hashtags |-> {}]}
    \cup {[content |-> "hi", reblog |-> FALSE, visibility |-> "public", inReplyTo |-> p,
           hashtags |-> {FilterHashtag}] : p \in (1..Len(statuses)) \cup {Foreign}}

\* The account publishes a status; ids grow with time.  The bridge sees the
\* statuses only when it fetches them, so it is enough to let the account act
\* between the fetches.
SourcePublish ==
    /\ pc = "select"
    /\ Len(statuses) < MaxPosts
    /\ \E st \in StatusKinds : statuses' = Append(statuses, st)
    /\ UNCHANGED <<edits, dstVars, dbVars, lastID, pc, batch, recentIDs, pp, calls, lookups,
                   handled, synced, faults, envVars>>

\* The account edits a status: new content, the hashtags kept or dropped.
SourceEdit ==
    /\ pc \in {"select", "edit"}
    /\ edits < MaxEdits
    /\ \E i \in 1..Len(statuses), c \in Catalog, tags \in {{}, {FilterHashtag}} :
        /\ ~statuses[i].reblog
        /\ c # statuses[i].content
        /\ tags \subseteq statuses[i].hashtags
        /\ statuses' = [statuses EXCEPT ![i].content = c, ![i].hashtags = tags]
    /\ edits' = edits + 1
    /\ UNCHANGED <<dstVars, dbVars, lastID, pc, batch, recentIDs, pp, calls, lookups,
                   handled, synced, faults, envVars>>

\* A status as GetNewPosts converts it.
NewPost(i) ==
    [id |-> i, content |-> statuses[i].content, reblog |-> statuses[i].reblog,
     visibility |-> statuses[i].visibility, inReplyTo |-> statuses[i].inReplyTo,
     hashtags |-> statuses[i].hashtags]

\* A status as GetPostWithEdits converts it: Reblog is never set.
GetPostWithEdits(i) == [NewPost(i) EXCEPT !.reblog = FALSE]

\* A faulty variant of GetNewPosts: of the statuses newer than sinceID only the
\* newest is returned.
GetNewPostsNewest(sinceID) ==
    LET n == Len(statuses)
        newestFirst == [k \in 1..Min(1, n - sinceID) |-> NewPost(n - k + 1)]
    IN SelectSeq(newestFirst, LAMBDA p : p.id > startTime /\ p.visibility = "public")

\* A faulty variant of GetNewPosts: the statuses created before the run started
\* are not left out.
GetNewPostsAnyTime(sinceID) ==
    LET n == Len(statuses)
        newestFirst == [k \in 1..(n - sinceID) |-> NewPost(n - k + 1)]
    IN SelectSeq(newestFirst, LAMBDA p : p.visibility = "public")

\* A faulty variant of GetNewPosts: since_id is not passed on.
GetNewPostsAll(sinceID) ==
    LET n == Len(statuses)
        newestFirst == [k \in 1..n |-> NewPost(n - k + 1)]
    IN SelectSeq(newestFirst, LAMBDA p : p.id > startTime /\ p.visibility = "public")

\* GetNewPosts(sinceID): the statuses newer than sinceID (all when sinceID is ""),
\* newest first, those created before the run started and the non-public ones
\* left out.
GetNewPosts(sinceID) ==
    LET n == Len(statuses)
        newestFirst == [k \in 1..(n - sinceID) |-> NewPost(n - k + 1)]
    IN SelectSeq(newestFirst, LAMBDA p : p.id > startTime /\ p.visibility = "public")

\* ------------------------------------------------------------- database

Put(f, k, v) == [x \in DOMAIN f \cup {k} |-> IF x = k THEN v ELSE f[x]]
Drop(f, k) == [x \in DOMAIN f \ {k} |-> f[x]]

\* GetBlueskyIDsForMastodonPost: no row is an error (nil); a row is split at
\* the commas, and splitting the empty string gives one empty id.
HasMapping(id) == id \in DOMAIN postMappings
GetBlueskyIDsForMastodonPost(id) ==
    IF ~HasMapping(id) THEN <<>>
    ELSE IF postMappings[id] = <<>> THEN <<NoRef>>
    ELSE postMappings[id]

\* GetContentHash: no row is "", without an error
GetContentHash(id) == IF id \in DOMAIN contentHashes THEN contentHashes[id] ELSE NoHash

\* A faulty variant of SavePostMapping: the ids are added to the row.
SavePostMappingAppend(id, ids) ==
    /\ postMappings' = Put(postMappings, id,
                           (IF id \in DOMAIN postMappings THEN postMappings[id] ELSE <<>>) \o ids)
    /\ mapOrder' = Append(SelectSeq(mapOrder, LAMBDA x : x # id), id)

\* A faulty variant of SavePostMapping: only the last id is stored.
SavePostMappingLast(id, ids) ==
    /\ postMappings' = Put(postMappings, id, <<ids[Len(ids)]>>)
    /\ mapOrder' = Append(SelectSeq(mapOrder, LAMBDA x : x # id), id)

\* INSERT OR REPLACE INTO post_mappings: the row is new, so is its created_at
SavePostMapping(id, ids) ==
    /\ postMappings' = Put(postMappings, id, ids)
    /\ mapOrder' = Append(SelectSeq(mapOrder, LAMBDA x : x # id), id)

\* A faulty variant of GetRecentPostsToCheckForEdits: the query has no LIMIT.
GetAllPostsToCheckForEdits(maxCount) ==
    LET n == Len(mapOrder)
    IN [k \in 1..n |-> mapOrder[n - k + 1]]

\* GetRecentPostsToCheckForEdits(maxCount): ORDER BY created_at DESC LIMIT maxCount
GetRecentPostsToCheckForEdits(maxCount) ==
    LET n == Len(mapOrder)
    IN [k \in 1..Min(n, maxCount) |-> mapOrder[n - k + 1]]

\* ------------------------------------------------------------------ Run

\* The goroutine of main calls cancel() on SIGINT or SIGTERM.
Cancel ==
    /\ pc \notin {"stopped", "crashed"}
    /\ ~cancelled
    /\ cancelled' = TRUE
    /\ UNCHANGED <<srcVars, dstVars, dbVars, lastID, startTime, pc, batch, recentIDs,
                   pp, calls, lookups, handled, synced, faults, splitVars,
                   lookupVars, editTable, cleanVars, client>>

\* A faulty variant of AtSelect: the channels are also looked at inside the
\* two loops.
AtSelectOrInLoop == pc \in {"select", "batch", "edit"}

\* Run is at "select {": the channels are looked at only here, when the loop
\* "for {" comes round.
AtSelect == pc = "select"

\* A faulty variant of CtxDone: the select has no case for ctx.
CtxDoneNever == FALSE

\* <-ctx.Done() is ready
CtxDone == cancelled

\* select: case <-ctx.Done()
Stop ==
    /\ AtSelect
    /\ CtxDone
    /\ pc' = "stopped"
    /\ UNCHANGED <<srcVars, dstVars, dbVars, lastID, batch, recentIDs, pp, calls, lookups,
                   handled, synced, faults, envVars>>

\* select: case <-postTicker.C, up to the first post of the batch
PostTick ==
    /\ AtSelect
    /\ \E ok \in CtxOutcomes :
        /\ faults' = faults + CtxCost(ok)
        /\ IF ok /\ Len(GetNewPosts(lastID)) > 0
           THEN batch' = GetNewPosts(lastID) /\ pc' = "batch"
           ELSE UNCHANGED <<batch, pc>>
    /\ UNCHANGED <<srcVars, dstVars, dbVars, lastID, recentIDs, pp, calls, lookups,
                   handled, synced, envVars>>

\* A faulty variant of NextIndex: the loop runs from the front of the feed.
NextIndexFront(posts) == 1

\* "Process posts in chronological order": the loop runs from the back of
\* the feed, which is newest first.
NextIndex(posts) == Len(posts)

\* The loop "for i := len(posts) - 1; i >= 0; i--": the next post goes to
\* ProcessPost; after the last one the cursor is saved.
BatchNext ==
    /\ pc = "batch"
    /\ IF batch # <<>>
       THEN /\ pp' = [Idle EXCEPT !.post = batch[NextIndex(batch)], !.caller = "new"]
            /\ batch' = SubSeq(batch, 1, NextIndex(batch) - 1)
                         \o SubSeq(batch, NextIndex(batch) + 1, Len(batch))
            /\ calls' = <<>> /\ lookups' = <<>>
            /\ pc' = "process"
            /\ UNCHANGED <<savedLastID, faults, handled>>
       ELSE /\ \E ok \in Outcomes :
                /\ faults' = faults + Cost(ok)
                /\ savedLastID' = IF ok THEN lastID ELSE savedLastID
            /\ pc' = "select"
            /\ calls' = <<>> /\ lookups' = <<>>
            /\ handled' = NoneHandled
            /\ UNCHANGED <<pp, batch>>
    /\ UNCHANGED <<srcVars, dstVars, mapVars, contentHashes, lastID, recentIDs,
                   synced, envVars>>

\* select: case <-editTicker.C, up to the first id
EditTick ==
    /\ AtSelect
    /\ \E ok \in Outcomes :
        /\ faults' = faults + Cost(ok)
        /\ IF ok
           THEN recentIDs' = GetRecentPostsToCheckForEdits(editCheckCount) /\ pc' = "edit"
           ELSE UNCHANGED <<recentIDs, pc>>
    /\ UNCHANGED <<srcVars, dstVars, dbVars, lastID, batch, pp, calls, lookups,
                   handled, synced, envVars>>

\* A faulty variant of ContentChanged: the comparison is inverted.
ContentSame(newContentHash, oldContentHash) == newContentHash = oldContentHash

\* "Only process if content actually changed"
ContentChanged(newContentHash, oldContentHash) == newContentHash # oldContentHash

\* The loop "for _, id := range recentIDs": the post is fetched and hashed, the
\* stored hash is read, and a post whose hash differs goes to ProcessPost.
\* Logging the change slices the stored hash ([:8]), which panics when no hash
\* is stored.
EditNext ==
    /\ pc = "edit"
    /\ IF recentIDs = <<>>
       THEN /\ pc' = "select"
            /\ calls' = <<>> /\ lookups' = <<>>
            /\ handled' = NoneHandled
            /\ UNCHANGED <<recentIDs, pp, faults>>
       ELSE LET id == Head(recentIDs)
                post == GetPostWithEdits(id)
                newContentHash == HashOf[post.content]
                oldContentHash == GetContentHash(id)
            IN \E fetched \in CtxOutcomes, read \in BOOLEAN :
                /\ fetched \/ read
                /\ faults + CtxCost(fetched) + Cost(read) <= MaxFaults
                /\ faults' = faults + CtxCost(fetched) + Cost(read)
                /\ recentIDs' = Tail(recentIDs)
                /\ IF ~(fetched /\ read)
                   THEN /\ handled' = Handled(post, "edit", "unread", FALSE)
                        /\ calls' = <<>> /\ lookups' = <<>>
                        /\ UNCHANGED <<pc, pp>>
                   ELSE IF ~ContentChanged(newContentHash, oldContentHash)
                   THEN /\ handled' = Handled(post, "edit", "same", TRUE)
                        /\ calls' = <<>> /\ lookups' = <<>>
                        /\ UNCHANGED <<pc, pp>>
                   ELSE IF oldContentHash = NoHash
                   THEN /\ pc' = "crashed"
                        /\ handled' = Handled(post, "edit", "panic", TRUE)
                        /\ calls' = <<>> /\ lookups' = <<>>
                        /\ UNCHANGED pp
                   ELSE /\ pp' = [Idle EXCEPT !.post = post, !.caller = "edit"]
                        /\ calls' = <<>> /\ lookups' = <<>>
                        /\ pc' = "process"
                        /\ UNCHANGED handled
    /\ UNCHANGED <<srcVars, dstVars, dbVars, lastID, batch, synced, envVars>>

\* ---------------------------------------------------------- ProcessPost

\* A faulty variant of NextLastID: the cursor moves past a failed post, too.
NextLastIDAlways(frame, err) == IF frame.caller = "new" THEN frame.post.id ELSE lastID

\* The new-post loop after ProcessPost: "continue" on an error, "lastID =
\* post.ID" otherwise; the edit check has no cursor.
NextLastID(frame, err) == IF frame.caller = "new" /\ ~err THEN frame.post.id ELSE lastID

\* ProcessPost returns to its caller: the new-post loop moves the cursor when
\* err is nil; both loops go on with their next post.
Return(err, result, clean) ==
    /\ pc' = IF pp.caller = "new" THEN "batch" ELSE "edit"
    /\ lastID' = NextLastID(pp, err)
    /\ pp' = Idle
    /\ handled' = Handled(pp.post, pp.caller, result, pp.clean /\ clean)

\* strings.EqualFold(tag, b.config.FilterHashtag) for some tag of the post
hasFilterTag(post) == \E tag \in post.hashtags : tag = FilterHashtag

\* A faulty variant of Skipped: the check for the filter hashtag is missing.
SkippedUntagged(post) ==
    \/ post.reblog
    \/ post.visibility # "public"

\* The skips at the top of ProcessPost: reblog, non-public, filter hashtag missing
Skipped(post) ==
    \/ post.reblog
    \/ post.visibility # "public"
    \/ (FilterHashtag # "" /\ ~hasFilterTag(post))

\* "Check if we've already processed this exact content"
Unchanged(err, existingHash, contentHash) == err = FALSE /\ existingHash = contentHash

\* A faulty variant of Reprocessing: the previous thread is looked for
\* whatever GetContentHash gave.
ReprocessingAlways(existingHash) == TRUE

\* "If we're here, either it's a new post or the content has changed": a hash
\* was read, so the content has changed
Reprocessing(existingHash) == existingHash # NoHash

\* The entry of ProcessPost: the skips, the content hash and its comparison with
\* the stored one, and the lookup of the previous thread of a changed post.
PPBegin ==
    /\ pc = "process"
    /\ LET post == pp.post
           contentHash == HashOf[post.content]
       IN IF Skipped(post)
          THEN Return(FALSE, "skipped", TRUE) /\ UNCHANGED <<faults, synced>>
          ELSE \E read \in Outcomes :
                LET existingHash == IF read THEN GetContentHash(post.id) ELSE NoHash
                IN IF Unchanged(~read, existingHash, contentHash)
                   THEN /\ Return(FALSE, "unchanged", TRUE)
                        /\ UNCHANGED <<faults, synced>>
                   ELSE /\ synced' = Drop(synced, post.id)
                        /\ UNCHANGED <<lastID, handled>>
                        /\ IF Reprocessing(existingHash)
                           THEN \E found \in BOOLEAN :
                                LET bskyIDs ==
                                      IF found THEN GetBlueskyIDsForMastodonPost(post.id)
                                      ELSE <<>>
                                IN /\ faults + Cost(read) + Cost(found) <= MaxFaults
                                   /\ faults' = faults + Cost(read) + Cost(found)
                                   /\ pp' = [pp EXCEPT !.contentHash = contentHash,
                                                       !.existingHash = existingHash,
                                                       !.queue = bskyIDs,
                                                       !.clean = read /\ found]
                                   /\ pc' = IF bskyIDs = <<>> THEN "parent" ELSE "delete"
                           ELSE /\ faults' = faults + Cost(read)
                                /\ pp' = [pp EXCEPT !.contentHash = contentHash,
                                                    !.existingHash = existingHash,
                                                    !.clean = read]
                                /\ pc' = "parent"
    /\ UNCHANGED <<srcVars, dstVars, dbVars, batch, recentIDs, calls, lookups, envVars>>

\* A call of the destination, as ProcessPost made it: op is "delete", "create"
\* or "reply"; ref is the record deleted or created (NoRef: the create failed).
Call(op, ref, parent, txt, ok) ==
    [op |-> op, ref |-> ref, parent |-> parent, text |-> txt, ok |-> ok]

\* "Delete all previous posts": one DeletePost of the previous thread; a failure
\* is logged and the loop goes on.
PPDeleteOld ==
    /\ pc = "delete"
    /\ \E ok \in CtxOutcomes :
        /\ faults' = faults + CtxCost(ok)
        /\ live' = IF ok THEN live \ {Rkey(Head(pp.queue))} ELSE live
        /\ calls' = Append(calls, Call("delete", Head(pp.queue), NoRef, <<>>, ok))
        /\ pp' = [pp EXCEPT !.queue = Tail(pp.queue), !.clean = pp.clean /\ ok]
    /\ pc' = IF Tail(pp.queue) = <<>> THEN "parent" ELSE "delete"
    /\ UNCHANGED <<srcVars, lookups, created, dbVars, lastID, batch, recentIDs, handled, synced,
                   envVars>>

\* strings.Split(lastParentID, "|") has two parts
WellFormed(ref) == ref.uri # 0 /\ ref.cid # 0

\* A faulty variant of Unresolvable: the check for an empty parent is missing.
UnresolvableNever(parent) == FALSE

\* "If we still haven't found a parent, we should skip this post"
Unresolvable(parent) == parent.uri = 0

\* LookupBridgedMastodonPost tries its resolvers in this order: the four
\* possibleHandles (resolveHandle, then findPostInUserFeed), searchForPost and
\* findPostByContentAndName.
Resolvers ==
    <<"user.instance.ap.brid.gy", "user.instance.ap.bridgy.fed", "user_instance.ap.brid.gy",
      "user-instance.ap.brid.gy", "searchForPost", "findPostByContentAndName">>

\* Records of other Bluesky accounts that a resolver may match: the bridged
\* copy of the parent, and some other record the heuristics take for it.
ExtRef == [uri |-> 999, cid |-> 0 - 999]
OtherRef == [uri |-> 998, cid |-> 0 - 998]
ExtRefs == {ExtRef, OtherRef}

\* What a resolver comes to: "hit" (err == nil, uri and cid not empty: ref is
\* the record), "miss" (it returns its "no matching post found" error, or a
\* record that lacks its uri or cid), "error" (a request of it failed; for a
\* handle also: the handle does not resolve).
Hit(ref) == [out |-> "hit", ref |-> ref]
Miss == [out |-> "miss", ref |-> NoRef]
Failed == [out |-> "error", ref |-> NoRef]

\* One invocation of a resolver, as the ghost lookups records it
Lookup(name, out) == [name |-> name, out |-> out]

\* A faulty variant of TryFrom: a match does not end the chain.
RECURSIVE TryAll(_, _, _)
TryAll(resp, n, k) ==
    IF k > n THEN <<>> ELSE <<k>> \o TryAll(resp, n, k + 1)

\* The resolvers invoked from resolver k on, of the first n, when resp[j] is
\* what resolver j comes to: "return uri, cid, nil" at the first hit, "continue"
\* or fall through otherwise.
RECURSIVE TryFrom(_, _, _)
TryFrom(resp, n, k) ==
    IF k > n THEN <<>>
    ELSE IF resp[k].out = "hit" THEN <<k>>
    ELSE <<k>> \o TryFrom(resp, n, k + 1)

\* LookupBridgedMastodonPost: auth is ensureAuth succeeding, hasContent is
\* postContent != "" (the last resolver is tried only then).  invoked: the
\* resolvers it ran, in order; ref, err: what it returns.
LookupBridgedMastodonPost(auth, resp, hasContent) ==
    LET n == IF hasContent THEN 6 ELSE 5
        tried == IF auth THEN TryFrom(resp, n, 1) ELSE <<>>
        hits == {k \in 1..Len(tried) : resp[tried[k]].out = "hit"}
        first == IF hits = {} THEN 0 ELSE tried[CHOOSE k \in hits : \A j \in hits : k <= j]
    IN [invoked |-> [k \in 1..Len(tried) |-> Lookup(Resolvers[tried[k]], resp[tried[k]].out)],
        ref |-> IF first = 0 THEN NoRef ELSE resp[first].ref,
        err |-> first = 0]

\* The requests of a lookup that failed
Errors(ls) == Len(SelectSeq(ls, LAMBDA l : l.out = "error"))

\* The responses the resolvers give during a run: a hit is the bridged copy of
\* the parent; those after the first hit are never asked for, so one value
\* stands for all of them; a failure counts against the failures of the run.
Responses ==
    {resp \in [1..Len(Resolvers) -> {Hit(ExtRef), Miss, Failed}] :
        /\ \A k \in 1..Len(Resolvers) :
              (\E j \in 1..(k - 1) : resp[j].out = "hit") => resp[k] = Miss
        /\ Cardinality({k \in 1..Len(Resolvers) : resp[k] = Failed}) <= MaxFaults - faults}

\* "We haven't bridged this post - try to find it on Mastodon": GetPostWithEdits
\* of the parent (fetch: it succeeded and gave a username and an instance), then
\* LookupBridgedMastodonPost.  skip: "Skipping post as we can't find the parent".
FindParent(fetch, auth, resp, hasContent) ==
    IF ~fetch
    THEN [lookups |-> <<Lookup("GetPostWithEdits", "error")>>, parent |-> NoRef, skip |-> FALSE]
    ELSE LET r == LookupBridgedMastodonPost(auth, resp, hasContent)
         IN [lookups |-> <<Lookup("GetPostWithEdits", "ok")>> \o r.invoked,
             parent |-> r.ref,
             skip |-> r.err]

\* The parent's content as GetPostWithEdits gives it: a status of the account
\* has content, one of another account may have none.
ParentHasContent(inReplyTo) == IF inReplyTo = Foreign THEN BOOLEAN ELSE {TRUE}

\* A faulty variant of LastOf: the first part of the parent's thread.
FirstOf(parentBskyIDs) == parentBskyIDs[1]

\* "Get the last part of the parent thread"
LastOf(parentBskyIDs) == parentBskyIDs[Len(parentBskyIDs)]

\* "Handle reply to our own post or another bridged post": the parent comes
\* from the mapping of the parent's id (the last part of its thread) or, when
\* there is none (or it cannot be read), from the lookup on Bluesky of the
\* parent fetched from Mastodon.
PPResolveParent ==
    /\ pc = "parent"
    /\ LET post == pp.post IN
       IF post.inReplyTo = 0
       THEN /\ pc' = "create"
            /\ UNCHANGED <<pp, lastID, handled, faults, lookups>>
       ELSE \E ok \in Outcomes :
            LET parentBskyIDs ==
                    IF ok THEN GetBlueskyIDsForMastodonPost(post.inReplyTo) ELSE <<>>
            IN IF Len(parentBskyIDs) > 0
               THEN LET lastParentID == LastOf(parentBskyIDs)
                        parent == IF WellFormed(lastParentID) THEN lastParentID ELSE NoRef
                    IN /\ faults' = faults
                       /\ lookups' = <<>>
                       /\ IF Unresolvable(parent)
                          THEN Return(FALSE, "noparent", pp.clean)
                          ELSE /\ pp' = [pp EXCEPT !.parent = parent, !.last = parent]
                               /\ pc' = "create"
                               /\ UNCHANGED <<lastID, handled>>
               ELSE \E fetch \in CtxOutcomes :
                    \E auth \in IF fetch THEN BOOLEAN ELSE {TRUE} :
                    \E hasContent \in IF fetch /\ auth THEN ParentHasContent(post.inReplyTo)
                                      ELSE {TRUE} :
                    \E resp \in IF fetch /\ auth THEN Responses
                                ELSE {[k \in 1..Len(Resolvers) |-> Miss]} :
                    LET found == FindParent(fetch, auth, resp, hasContent)
                        cost == Cost(ok) + CtxCost(fetch) + Cost(auth)
                                + (IF fetch THEN Errors(found.lookups) ELSE 0)
                        clean == pp.clean /\ ok /\ fetch /\ auth /\ ~found.skip
                                 /\ Errors(found.lookups) = 0
                    IN /\ faults + cost <= MaxFaults
                       /\ faults' = faults + cost
                       /\ lookups' = found.lookups
                       /\ IF found.skip \/ Unresolvable(found.parent)
                          THEN Return(FALSE, "noparent", clean)
                          ELSE /\ pp' = [pp EXCEPT !.parent = found.parent,
                                                   !.last = found.parent, !.clean = clean]
                               /\ pc' = "create"
                               /\ UNCHANGED <<lastID, handled>>
    /\ UNCHANGED <<srcVars, dstVars, dbVars, batch, recentIDs, calls, synced, envVars>>

\* A faulty variant of Truncate: the part is posted as it is.
NoTruncate(part) == part

\* "Double check length before posting"
Truncate(part) ==
    IF Len(part) > 300 THEN GoTo(part, 297) \o <<".", ".", ".">> ELSE part

\* A faulty variant of ReplyRoot: cid and uri change places.
ReplyRootSwapped(parentCid, parentUri) == [uri |-> parentCid, cid |-> parentUri]

\* CreateReply: "root" of the reply record is built from the cid and the uri
\* CreateReply was given, the same two that make "parent".
ReplyRoot(parentCid, parentUri) == [uri |-> parentUri, cid |-> parentCid]

\* A faulty variant of ReplyTarget: every part replies to the resolved parent.
ReplyToParent(frame) == frame.parent

\* CreateReply(ctx, part, lastCid, lastUri): the record replied to
ReplyTarget(frame) == frame.last

\* A faulty variant of RollbackQueue: the clean-up visits the ids stored for
\* the post, the thread made before the edit.
RollbackQueueStored(frame) == GetBlueskyIDsForMastodonPost(frame.post.id)

\* "Try to clean up posts we already made": the ids the clean-up visits
RollbackQueue(frame) == frame.bskyIDs

\* One turn of the loop "for i, part := range parts": part i is created, as a
\* post when it is the first and there is no parent, as a reply to the parent or
\* to the part before it otherwise.  When the create fails, the parts made so
\* far are to be deleted.
PPCreate ==
    /\ pc = "create"
    /\ LET parts == PartsOf[pp.post.content]
           i == Len(pp.bskyIDs)
           part == Truncate(parts[i + 1])
           top == i = 0 /\ pp.parent.uri = 0 /\ pp.parent.cid = 0
           op == IF top THEN "create" ELSE "reply"
           parent == IF top THEN NoRef ELSE ReplyTarget(pp)
           root == IF top THEN NoRef ELSE ReplyRoot(parent.cid, parent.uri)
           result == Ref(Len(created) + 1)
       IN \E ok \in CtxOutcomes :
           /\ faults' = faults + CtxCost(ok)
           /\ IF ok
              THEN /\ created' = Append(created,
                          [text |-> part, parent |-> parent, root |-> root,
                           src |-> pp.post.id, hash |-> pp.contentHash])
                   /\ live' = live \cup {Rkey(result)}
                   /\ calls' = Append(calls, Call(op, result, parent, part, TRUE))
                   /\ pp' = [pp EXCEPT !.bskyIDs = Append(pp.bskyIDs, result),
                                       !.last = result]
                   /\ pc' = IF i + 1 = Len(parts) THEN "save" ELSE "create"
                   /\ UNCHANGED <<lastID, handled>>
              ELSE /\ calls' = Append(calls, Call(op, NoRef, parent, part, FALSE))
                   /\ UNCHANGED <<created, live>>
                   /\ IF RollbackQueue(pp) = <<>>
                      THEN Return(TRUE, "failed", FALSE)
                      ELSE /\ pp' = [pp EXCEPT !.queue = RollbackQueue(pp),
                                               !.clean = FALSE]
                           /\ pc' = "rollback"
                           /\ UNCHANGED <<lastID, handled>>
    /\ UNCHANGED <<srcVars, lookups, dbVars, batch, recentIDs, synced, envVars>>

\* A faulty variant of RollbackGoesOn: a failing DeletePost ends the clean-up.
RollbackStopsOnError(ok, rest) == ok /\ rest # <<>>

\* The clean-up loop goes on while ids are left; the error of DeletePost is
\* not looked at.
RollbackGoesOn(ok, rest) == rest # <<>>

\* "Try to clean up posts we already made": one DeletePost, its error dropped;
\* after the last one ProcessPost returns the error of the create.
PPRollback ==
    /\ pc = "rollback"
    /\ \E ok \in CtxOutcomes :
        /\ faults' = faults + CtxCost(ok)
        /\ live' = IF ok THEN live \ {Rkey(Head(pp.queue))} ELSE live
        /\ calls' = Append(calls, Call("delete", Head(pp.queue), NoRef, <<>>, ok))
        /\ IF RollbackGoesOn(ok, Tail(pp.queue))
           THEN /\ pp' = [pp EXCEPT !.queue = Tail(pp.queue)]
                /\ UNCHANGED <<pc, lastID, handled>>
           ELSE Return(TRUE, "failed", FALSE)
    /\ UNCHANGED <<srcVars, lookups, created, dbVars, batch, recentIDs, synced, envVars>>

\* A faulty variant of StoredHash: the hash read at entry is stored again.
StoredHashOld(frame) == frame.existingHash

\* The hash ProcessPost stores for the post
StoredHash(frame) == frame.contentHash

\* "Store the mapping in the database", "Store the content hash": a failure of
\* either is logged; ProcessPost returns nil.
PPSave ==
    /\ pc = "save"
    /\ \E o \in Outcomes2 :
        /\ faults' = faults + Cost(o[1]) + Cost(o[2])
        /\ IF o[1] THEN SavePostMapping(pp.post.id, pp.bskyIDs)
                   ELSE UNCHANGED <<postMappings, mapOrder>>
        /\ contentHashes' =
              IF o[2] THEN Put(contentHashes, pp.post.id, StoredHash(pp)) ELSE contentHashes
        /\ synced' = IF o[1] /\ o[2] THEN Put(synced, pp.post.id, pp.contentHash) ELSE synced
        /\ Return(FALSE, "mirrored", o[1] /\ o[2])
    /\ UNCHANGED <<srcVars, dstVars, savedLastID, batch, recentIDs, calls, lookups, envVars>>

\* ----------------------------------------------------- the specification

Init ==
    /\ BridgeInit
    /\ splitInput = <<>>
    /\ splitResult = <<>>
    /\ lookupInput = <<>>
    /\ lookupResult = <<>>
    /\ editTable = <<>>
    /\ cleanInput = NoStatus
    /\ cleanResult = NotCleaned
    /\ client = NewClient

Next ==
    \/ SourcePublish
    \/ SourceEdit
    \/ Cancel
    \/ Stop
    \/ PostTick
    \/ BatchNext
    \/ EditTick
    \/ EditNext
    \/ PPBegin
    \/ PPDeleteOld
    \/ PPResolveParent
    \/ PPCreate
    \/ PPRollback
    \/ PPSave

Spec == Init /\ [][Next]_vars

\* The same bridge, started when the account has just published a status with
\* the oversize content.
InitLong ==
    /\ statuses = <<[content |-> Oversize, reblog |-> FALSE, visibility |-> "public",
                     inReplyTo |-> 0, hashtags |-> {FilterHashtag}]>>
    /\ edits = 0
    /\ created = <<>>
    /\ live = {}
    /\ postMappings = <<>>
    /\ mapOrder = <<>>
    /\ contentHashes = <<>>
    /\ savedLastID = 0
    /\ lastID = 0
    /\ startTime = 0
    /\ pc = "select"
    /\ batch = <<>>
    /\ recentIDs = <<>>
    /\ pp = Idle
    /\ calls = <<>>
    /\ lookups = <<>>
    /\ handled = NoneHandled
    /\ synced = <<>>
    /\ cancelled = FALSE
    /\ faults = 0
    /\ splitInput = <<>>
    /\ splitResult = <<>>
    /\ lookupInput = <<>>
    /\ lookupResult = <<>>
    /\ editTable = <<>>
    /\ cleanInput = NoStatus
    /\ cleanResult = NotCleaned
    /\ client = NewClient

SpecLong == InitLong /\ [][Next]_vars

\* The same bridge, started again on the database of an earlier run: that run
\* saw one status, a reblog, skipped it and saved its id as the cursor.  Run
\* reads the cursor before its loop; when the read fails it goes on with "".
InitResume ==
    /\ statuses = <<[content |-> "hi", reblog |-> TRUE, visibility |-> "public",
                     inReplyTo |-> 0, hashtags |-> {FilterHashtag}]>>
    /\ edits = 0
    /\ created = <<>>
    /\ live = {}
    /\ postMappings = <<>>
    /\ mapOrder = <<>>
    /\ contentHashes = <<>>
    /\ savedLastID = 1
    /\ startTime = 1
    /\ \E ok \in BOOLEAN :
          /\ lastID = IF ok THEN 1 ELSE 0
          /\ faults = IF ok THEN 0 ELSE 1
    /\ pc = "select"
    /\ batch = <<>>
    /\ recentIDs = <<>>
    /\ pp = Idle
    /\ calls = <<>> /\ lookups = <<>>
    /\ handled = NoneHandled
    /\ synced = <<>>
    /\ cancelled = FALSE
    /\ splitInput = <<>>
    /\ splitResult = <<>>
    /\ lookupInput = <<>>
    /\ lookupResult = <<>>
    /\ editTable = <<>>
    /\ cleanInput = NoStatus
    /\ cleanResult = NotCleaned
    /\ client = NewClient

SpecResume == InitResume /\ [][Next]_vars

\* ------------------------------------------- a run in which nothing fails
\* The bridge while no call of a collaborator or of the database fails and no
\* signal arrives: the failures the run may see are used up from the start, so
\* every call succeeds.  The worker goroutine goes on with the loop it is in;
\* the post ticker fires again and again, and select takes a ready case at
\* random, so the new-post case is taken again and again.

InitLive ==
    /\ statuses = <<>>
    /\ edits = 0
    /\ created = <<>>
    /\ live = {}
    /\ postMappings = <<>>
    /\ mapOrder = <<>>
    /\ contentHashes = <<>>
    /\ savedLastID = 0
    /\ lastID = 0
    /\ startTime = 0
    /\ pc = "select"
    /\ batch = <<>>
    /\ recentIDs = <<>>
    /\ pp = Idle
    /\ calls = <<>>
    /\ lookups = <<>>
    /\ handled = NoneHandled
    /\ synced = <<>>
    /\ cancelled = FALSE
    /\ faults = MaxFaults
    /\ splitInput = <<>>
    /\ splitResult = <<>>
    /\ lookupInput = <<>>
    /\ lookupResult = <<>>
    /\ editTable = <<>>
    /\ cleanInput = NoStatus
    /\ cleanResult = NotCleaned
    /\ client = NewClient

\* The steps of the loops of Run and of ProcessPost
Worker ==
    \/ BatchNext
    \/ EditNext
    \/ PPBegin
    \/ PPDeleteOld
    \/ PPResolveParent
    \/ PPCreate
    \/ PPSave

NextLive ==
    \/ SourcePublish
    \/ SourceEdit
    \/ PostTick
    \/ EditTick
    \/ BatchNext
    \/ EditNext
    \/ PPBegin
    \/ PPDeleteOld
    \/ PPResolveParent
    \/ PPCreate
    \/ PPSave

SpecLive ==
    /\ InitLive
    /\ [][NextLive]_vars
    /\ WF_vars(Worker)
    /\ SF_vars(PostTick)

\* ------------------------------------------- a run that is cancelled
\* The bridge with the signal: no call fails unless ctx is cancelled.  The
\* worker goroutine goes on with the loop it is in; once ctx is cancelled its
\* case is ready at every select, and select takes a ready case at random, so
\* the tickers cannot keep it from being taken for ever.

WorkerAll ==
    \/ Worker
    \/ PPRollback

NextCancel ==
    \/ SourcePublish
    \/ SourceEdit
    \/ Cancel
    \/ Stop
    \/ PostTick
    \/ EditTick
    \/ BatchNext
    \/ EditNext
    \/ PPBegin
    \/ PPDeleteOld
    \/ PPResolveParent
    \/ PPCreate
    \/ PPRollback
    \/ PPSave

SpecCancel ==
    /\ InitLive
    /\ [][NextCancel]_vars
    /\ WF_vars(WorkerAll)
    /\ SF_vars(Stop)

\* ------------------------------------------- a database with many rows
\* The same bridge, started again on the database of an earlier run that
\* mirrored more posts than the edit check looks at, each as one part, and
\* saved the id of the last one as the cursor.  One more status has been
\* published since the start.

ManyPosts == editCheckCount + 1

Plain ==
    [content |-> "hi", reblog |-> FALSE, visibility |-> "public", inReplyTo |-> 0,
     hashtags |-> {FilterHashtag}]

InitMany ==
    /\ statuses = [i \in 1..(ManyPosts + 1) |-> Plain]
    /\ edits = 0
    /\ created = [i \in 1..ManyPosts |->
                    [text |-> Truncate(PartsOf["hi"][1]), parent |-> NoRef, root |-> NoRef,
                     src |-> i,
                     hash |-> HashOf["hi"]]]
    /\ live = 1..ManyPosts
    /\ postMappings = [i \in 1..ManyPosts |-> <<Ref(i)>>]
    /\ mapOrder = [i \in 1..ManyPosts |-> i]
    /\ contentHashes = [i \in 1..ManyPosts |-> HashOf["hi"]]
    /\ savedLastID = ManyPosts
    /\ lastID = ManyPosts
    /\ startTime = ManyPosts
    /\ pc = "select"
    /\ batch = <<>>
    /\ recentIDs = <<>>
    /\ pp = Idle
    /\ calls = <<>>
    /\ lookups = <<>>
    /\ handled = NoneHandled
    /\ synced = [i \in 1..ManyPosts |-> HashOf["hi"]]
    /\ cancelled = FALSE
    /\ faults = 0
    /\ splitInput = <<>>
    /\ splitResult = <<>>
    /\ lookupInput = <<>>
    /\ lookupResult = <<>>
    /\ editTable = <<>>
    /\ cleanInput = NoStatus
    /\ cleanResult = NotCleaned
    /\ client = NewClient

NextMany ==
    \/ SourceEdit
    \/ Cancel
    \/ Stop
    \/ PostTick
    \/ BatchNext
    \/ EditTick
    \/ EditNext
    \/ PPBegin
    \/ PPDeleteOld
    \/ PPResolveParent
    \/ PPCreate
    \/ PPRollback
    \/ PPSave

SpecMany == InitMany /\ [][NextMany]_vars

\* ------------------------------------------- a first run with a backlog
\* The same bridge, started for the first time for an account that has already
\* published a status: no cursor is stored, so Run starts with "", and the
\* status is older than startTime.

InitBacklog ==
    /\ statuses = <<Plain>>
    /\ edits = 0
    /\ created = <<>>
    /\ live = {}
    /\ postMappings = <<>>
    /\ mapOrder = <<>>
    /\ contentHashes = <<>>
    /\ savedLastID = 0
    /\ lastID = 0
    /\ startTime = 1
    /\ pc = "select"
    /\ batch = <<>>
    /\ recentIDs = <<>>
    /\ pp = Idle
    /\ calls = <<>>
    /\ lookups = <<>>
    /\ handled = NoneHandled
    /\ synced = <<>>
    /\ cancelled = FALSE
    /\ faults = 0
    /\ splitInput = <<>>
    /\ splitResult = <<>>
    /\ lookupInput = <<>>
    /\ lookupResult = <<>>
    /\ editTable = <<>>
    /\ cleanInput = NoStatus
    /\ cleanResult = NotCleaned
    /\ client = NewClient

SpecBacklog == InitBacklog /\ [][Next]_vars

\* ------------------------------------------- splitContent on its own
\* The inputs: some head words, then a tail word repeated, single spaces
\* between the words (a word of length 0 gives two spaces in a row).

Heads == {<<>>, <<1>>, <<58>>, <<294>>, <<300>>, <<301>>, <<650>>, <<146, 147>>, <<0, 293>>}

TailLens == {0, 1, 146, 147, 148, 293, 294, 295}

\* The same text with letters that differ from place to place.
Marked(text) ==
    [i \in 1..Len(text) |-> IF text[i] = " " THEN " " ELSE <<"a", "b", "c">>[(i % 3) + 1]]

\* Texts of 650 bytes: two words with the space at any place, and three words
\* with the spaces around the places where a part may end.
CutPlaces == {0, 1, 58, 146, 147, 148, 206, 293, 294, 295}

Texts650 ==
    {Words(<<n, 649 - n>>) : n \in 0..649}
    \cup {Words(<<a, b, 648 - a - b>>) : a \in CutPlaces, b \in CutPlaces}
    \cup {Words(<<a, b, c, 647 - a - b - c>>) : a \in CutPlaces, b \in CutPlaces, c \in CutPlaces}

SplitInit ==
    /\ BridgeInit
    /\ \/ \E h \in Heads, t \in TailLens, k \in 0..MaxRep, marked \in BOOLEAN :
             splitInput = IF marked THEN Marked(Words(h \o Repeat(t, k)))
                          ELSE Words(h \o Repeat(t, k))
       \/ splitInput \in Texts650
    /\ splitResult = <<>>
    /\ lookupInput = <<>>
    /\ lookupResult = <<>>
    /\ editTable = <<>>
    /\ cleanInput = NoStatus
    /\ cleanResult = NotCleaned
    /\ client = NewClient

SplitCall ==
    /\ splitResult = <<>>
    /\ splitResult' = splitContent(splitInput)
    /\ UNCHANGED <<splitInput, bridgeVars, lookupVars, editTable, cleanVars, client>>

SplitNext == SplitCall

SplitSpec == SplitInit /\ [][SplitNext]_vars

\* ------------------------------------------- the parent lookup on its own
\* What the collaborators answer: GetPostWithEdits succeeds or not, ensureAuth
\* succeeds or not, the parent has content or not, and each resolver misses,
\* fails, or matches one of two records.

LookupInputs ==
    [fetch : BOOLEAN, auth : BOOLEAN, hasContent : BOOLEAN,
     resp : [1..Len(Resolvers) -> {Miss, Failed} \cup {Hit(ref) : ref \in ExtRefs}]]

LookupInit ==
    /\ BridgeInit
    /\ splitInput = <<>>
    /\ splitResult = <<>>
    /\ lookupInput \in LookupInputs
    /\ lookupResult = <<>>
    /\ editTable = <<>>
    /\ cleanInput = NoStatus
    /\ cleanResult = NotCleaned
    /\ client = NewClient

LookupCall ==
    /\ lookupResult = <<>>
    /\ lookupResult' = <<FindParent(lookupInput.fetch, lookupInput.auth, lookupInput.resp,
                                    lookupInput.hasContent)>>
    /\ UNCHANGED <<lookupInput, bridgeVars, splitVars, editTable, cleanVars, client>>

LookupNext == LookupCall

LookupSpec == LookupInit /\ [][LookupNext]_vars

\* ------------------------------------------- cleanHTML on its own

\* The longest content, in words
MaxWords == 3

Hello == <<"H", "e", "l", "l", "o">>
world == <<"w", "o", "r", "l", "d">>
test == <<"t", "e", "s", "t">>

\* The words of a status: text, the hashtag, mentions with and without instance
StatusWords ==
    {Hello, world, <<"#">> \o test, <<"@", "b", "o", "b">>,
     <<"@", "a", "m", "y", "@", "x", ".", "o", "r", "g">>}

\* What stands between two words
StatusGaps == {<<" ">>, <<NL>>, <<"<", "b", "r", ">">>, <<"<", "/", "p", ">", "<", "p", ">">>}

\* The contents: up to MaxWords words with gaps between them, bare or in <p>...</p>
RECURSIVE Contents(_)
Contents(n) ==
    IF n = 1 THEN StatusWords
    ELSE Contents(n - 1)
         \cup {c \o g \o w : c \in Contents(n - 1), g \in StatusGaps, w \in StatusWords}

CleanInputs ==
    [content : Contents(MaxWords)
               \cup {<<"<", "p", ">">> \o c \o <<"<", "/", "p", ">">> : c \in Contents(MaxWords)},
     tags : {<<>>, <<test>>},
     inReplyToID : {Nil, String(""), String("7")}]

CleanInit ==
    /\ BridgeInit
    /\ splitInput = <<>>
    /\ splitResult = <<>>
    /\ lookupInput = <<>>
    /\ lookupResult = <<>>
    /\ editTable = <<>>
    /\ cleanInput \in CleanInputs
    /\ cleanResult = NotCleaned
    /\ client = NewClient

\* GetNewPosts or GetPostWithEdits makes the Post of the status.
CleanCall ==
    /\ ~cleanResult.done
    /\ cleanResult' = [done |-> TRUE, content |-> PostContent(cleanInput)]
    /\ UNCHANGED <<cleanInput, bridgeVars, splitVars, lookupVars, editTable, client>>

CleanNext == CleanCall

CleanSpec == CleanInit /\ [][CleanNext]_vars

\* ------------------------------------------- the Bluesky client on its own

\* The hours the clock runs
MaxTime == 4

ClientInit ==
    /\ BridgeInit
    /\ splitInput = <<>>
    /\ splitResult = <<>>
    /\ lookupInput = <<>>
    /\ lookupResult = <<>>
    /\ editTable = <<>>
    /\ cleanInput = NoStatus
    /\ cleanResult = NotCleaned
    /\ client = NewClient

\* An hour passes.
ClockTick ==
    /\ client.now < MaxTime
    /\ client' = [client EXCEPT !.now = client.now + 1]
    /\ UNCHANGED <<bridgeVars, splitVars, lookupVars, editTable, cleanVars>>

\* The bridge calls an operation of the client.
ClientCall ==
    /\ \E op \in ClientOps, authOK \in BOOLEAN, reqOK \in BOOLEAN :
        client' = Operation(client, op, authOK, reqOK)
    /\ UNCHANGED <<bridgeVars, splitVars, lookupVars, editTable, cleanVars>>

ClientNext ==
    \/ ClockTick
    \/ ClientCall

ClientSpec == ClientInit /\ [][ClientNext]_vars

\* ------------------------------------ the lineage-based bridge (src/main.go)

\* The number of posts Run hands to the lineage-based ProcessPost
MaxDeliveries == 3

\* The posts handed to the lineage-based ProcessPost.  originalID is the field
\* "For edited posts, references the original post ID": empty (0), the post's
\* own id (what GetNewPosts and CheckForEdits fill in for an edited status) or
\* the id of another post.
MainPosts ==
    {[id |-> i, originalID |-> o, content |-> c, reblog |-> FALSE, visibility |-> "public",
      inReplyTo |-> 0, hashtags |-> {FilterHashtag}] :
        i \in 1..MaxPosts, o \in 0..MaxPosts, c \in {"hi", "mid"}}
    \cup {[id |-> 1, originalID |-> 0, content |-> "hi", reblog |-> TRUE,
           visibility |-> "public", inReplyTo |-> 0, hashtags |-> {FilterHashtag}],
          [id |-> 2, originalID |-> 0, content |-> "hi", reblog |-> FALSE,
           visibility |-> "public", inReplyTo |-> 1, hashtags |-> {FilterHashtag}]}

\* The frame of the lineage-based ProcessPost: post (the argument), the locals
\* origPostID, isEdit, parent (parentUri, parentCid), last (lastUri, lastCid),
\* bskyIDs, queue (the ids a delete loop still has to visit), and the ghosts
\* stored (the thread post_mappings held for origPostID at entry), writes (the
\* calls of SavePostMapping so far) and returned ("no", "nil" or "err").
MainFrame(post) ==
    [post |-> post, origPostID |-> 0, isEdit |-> FALSE, parent |-> NoRef, last |-> NoRef,
     bskyIDs |-> <<>>, queue |-> <<>>, stored |-> <<>>, writes |-> <<>>, returned |-> "no"]

\* CheckIfEdit(mastodonID, originalID): an original id that differs from the
\* post's id is taken and recorded with MarkAsEdit; otherwise the table edits is
\* asked, and an error of the query (no row, too) means "not an edit".
CheckIfEdit(mastodonID, originalID, read) ==
    IF originalID # 0 /\ originalID # mastodonID
    THEN [origPostID |-> originalID, isEdit |-> TRUE, marks |-> TRUE]
    ELSE IF read /\ mastodonID \in DOMAIN editTable
    THEN [origPostID |-> editTable[mastodonID], isEdit |-> TRUE, marks |-> FALSE]
    ELSE [origPostID |-> 0, isEdit |-> FALSE, marks |-> FALSE]

\* MarkAsEdit(editID, origID): INSERT OR REPLACE INTO edits
MarkAsEdit(editID, origID) == Put(editTable, editID, origID)

\* "Handle reply to our own post": the last id of the parent's thread, when
\* the mapping is read and the id has its two halves
MainParent(post, read) ==
    LET parentBskyIDs ==
          IF post.inReplyTo # 0 /\ read THEN GetBlueskyIDsForMastodonPost(post.inReplyTo)
          ELSE <<>>
    IN IF parentBskyIDs # <<>> /\ WellFormed(LastOf(parentBskyIDs))
       THEN LastOf(parentBskyIDs) ELSE NoRef

\* The calls of the database at the entry of ProcessPost succeed or fail: the
\* read of the parent's mapping, the query of CheckIfEdit, MarkAsEdit and the
\* read of the original's mapping.  A call that is not made does not fail.
MainReads(post) ==
    {o \in [parent : BOOLEAN, edit : BOOLEAN, mark : BOOLEAN, ids : BOOLEAN] :
        /\ (post.inReplyTo = 0 => o.parent)
        /\ (CheckIfEdit(post.id, post.originalID, TRUE).marks => o.edit)
        /\ (~CheckIfEdit(post.id, post.originalID, TRUE).marks => o.mark)
        /\ (~CheckIfEdit(post.id, post.originalID, o.edit).isEdit => o.ids)
        /\ Cost(o.parent) + Cost(o.edit) + Cost(o.mark) + Cost(o.ids) <= MaxFaults - faults}

\* Run hands a post to ProcessPost, which goes through its skips, looks for
\* the parent in post_mappings, asks CheckIfEdit and, for an edit, reads the
\* thread of the original post.
MainBegin ==
    /\ pc = "main"
    /\ Len(statuses) < MaxDeliveries
    /\ \E post \in MainPosts :
        /\ statuses' = Append(statuses, post)
        /\ calls' = <<>>
        /\ IF Skipped(post)
           THEN /\ pp' = [MainFrame(post) EXCEPT !.returned = "nil"]
                /\ UNCHANGED <<pc, faults, editTable>>
           ELSE \E o \in MainReads(post) :
                LET parent == MainParent(post, o.parent)
                    check == CheckIfEdit(post.id, post.originalID, o.edit)
                    bskyIDs == IF check.isEdit /\ o.ids
                               THEN GetBlueskyIDsForMastodonPost(check.origPostID)
                               ELSE <<>>
                    stored == IF check.isEdit /\ HasMapping(check.origPostID)
                              THEN postMappings[check.origPostID] ELSE <<>>
                IN /\ faults' = faults + Cost(o.parent) + Cost(o.edit) + Cost(o.mark)
                                  + Cost(o.ids)
                   /\ editTable' = IF check.marks /\ o.mark
                                   THEN MarkAsEdit(post.id, post.originalID)
                                   ELSE editTable
                   /\ pp' = [MainFrame(post) EXCEPT !.origPostID = check.origPostID,
                                                    !.isEdit = check.isEdit,
                                                    !.parent = parent,
                                                    !.last = parent,
                                                    !.queue = bskyIDs,
                                                    !.stored = stored]
                   /\ pc' = IF bskyIDs = <<>> THEN "main_create" ELSE "main_delete"
    /\ UNCHANGED <<edits, dstVars, dbVars, lastID, batch, recentIDs, lookups, handled, synced,
                   cancelled, startTime, splitVars, lookupVars, cleanVars, client>>

\* "Delete all previous Bluesky posts for this Mastodon post": one DeletePost;
\* a failure is logged and the loop goes on.
MainDeleteOld ==
    /\ pc = "main_delete"
    /\ \E ok \in CtxOutcomes :
        /\ faults' = faults + CtxCost(ok)
        /\ live' = IF ok THEN live \ {Rkey(Head(pp.queue))} ELSE live
        /\ calls' = Append(calls, Call("delete", Head(pp.queue), NoRef, <<>>, ok))
        /\ pp' = [pp EXCEPT !.queue = Tail(pp.queue)]
    /\ pc' = IF Tail(pp.queue) = <<>> THEN "main_create" ELSE "main_delete"
    /\ UNCHANGED <<srcVars, lookups, created, dbVars, lastID, batch, recentIDs, handled, synced,
                   envVars>>

\* A create failed and the clean-up is through: ProcessPost returns the error.
MainFailed(frame) == [frame EXCEPT !.queue = <<>>, !.returned = "err"]

\* One turn of the loop "for i, part := range parts" of src/main.go.
MainCreate ==
    /\ pc = "main_create"
    /\ LET parts == PartsOf[pp.post.content]
           i == Len(pp.bskyIDs)
           part == Truncate(parts[i + 1])
           top == i = 0 /\ pp.parent.uri = 0 /\ pp.parent.cid = 0
           op == IF top THEN "create" ELSE "reply"
           parent == IF top THEN NoRef ELSE pp.last
           result == Ref(Len(created) + 1)
       IN \E ok \in CtxOutcomes :
           /\ faults' = faults + CtxCost(ok)
           /\ IF ok
              THEN /\ created' = Append(created,
                          [text |-> part, parent |-> parent,
                           src |-> pp.post.id, hash |-> NoHash])
                   /\ live' = live \cup {Rkey(result)}
                   /\ calls' = Append(calls, Call(op, result, parent, part, TRUE))
                   /\ pp' = [pp EXCEPT !.bskyIDs = Append(pp.bskyIDs, result),
                                       !.last = result]
                   /\ pc' = IF i + 1 = Len(parts) THEN "main_save" ELSE "main_create"
              ELSE /\ calls' = Append(calls, Call(op, NoRef, parent, part, FALSE))
                   /\ UNCHANGED <<created, live>>
                   /\ IF pp.bskyIDs = <<>>
                      THEN /\ pp' = MainFailed(pp)
                           /\ pc' = "main"
                      ELSE /\ pp' = [pp EXCEPT !.queue = pp.bskyIDs]
                           /\ pc' = "main_rollback"
    /\ UNCHANGED <<srcVars, lookups, dbVars, lastID, batch, recentIDs, handled, synced,
                   envVars>>

\* "Try to clean up posts we already made": one DeletePost, its error dropped;
\* after the last one ProcessPost returns the error of the create.
MainRollback ==
    /\ pc = "main_rollback"
    /\ \E ok \in CtxOutcomes :
        /\ faults' = faults + CtxCost(ok)
        /\ live' = IF ok THEN live \ {Rkey(Head(pp.queue))} ELSE live
        /\ calls' = Append(calls, Call("delete", Head(pp.queue), NoRef, <<>>, ok))
        /\ IF Tail(pp.queue) # <<>>
           THEN /\ pp' = [pp EXCEPT !.queue = Tail(pp.queue)]
                /\ UNCHANGED pc
           ELSE /\ pp' = MainFailed(pp)
                /\ pc' = "main"
    /\ UNCHANGED <<srcVars, lookups, created, dbVars, lastID, batch, recentIDs, handled, synced,
                   envVars>>

\* A call of SavePostMapping, as ProcessPost made it
Write(id, ids, ok) == [id |-> id, ids |-> ids, ok |-> ok]

\* INSERT OR REPLACE INTO post_mappings: the row's place in the order of created_at
Touch(order, id) == Append(SelectSeq(order, LAMBDA x : x # id), id)

\* "Store the mapping in the database" and "If this was an edit, also update
\* the mapping for the original post": a failure of either SavePostMapping is
\* logged; ProcessPost returns nil.
MainSave ==
    /\ pc = "main_save"
    /\ LET id == pp.post.id
           both == pp.isEdit /\ pp.origPostID # id
       IN \E o \in Outcomes2 :
           /\ (~both => o[2])
           /\ faults' = faults + Cost(o[1]) + Cost(o[2])
           /\ LET m1 == IF o[1] THEN Put(postMappings, id, pp.bskyIDs) ELSE postMappings
                  o1 == IF o[1] THEN Touch(mapOrder, id) ELSE mapOrder
              IN /\ postMappings' =
                      IF both /\ o[2] THEN Put(m1, pp.origPostID, pp.bskyIDs) ELSE m1
                 /\ mapOrder' = IF both /\ o[2] THEN Touch(o1, pp.origPostID) ELSE o1
           /\ pp' = [pp EXCEPT
                      !.writes = <<Write(id, pp.bskyIDs, o[1])>>
                                 \o (IF both THEN <<Write(pp.origPostID, pp.bskyIDs, o[2])>>
                                     ELSE <<>>),
                      !.returned = "nil"]
    /\ pc' = "main"
    /\ UNCHANGED <<srcVars, dstVars, contentHashes, savedLastID, lastID, batch, recentIDs,
                   calls, lookups, handled, synced, envVars>>

\* The lineage-based bridge after NewBridge: nothing mirrored, the table edits
\* empty, Run about to hand over its first post.
MainInit ==
    /\ statuses = <<>>
    /\ edits = 0
    /\ created = <<>>
    /\ live = {}
    /\ postMappings = <<>>
    /\ mapOrder = <<>>
    /\ contentHashes = <<>>
    /\ savedLastID = 0
    /\ lastID = 0
    /\ startTime = 0
    /\ pc = "main"
    /\ batch = <<>>
    /\ recentIDs = <<>>
    /\ pp = MainFrame(NoPost)
    /\ calls = <<>>
    /\ lookups = <<>>
    /\ handled = NoneHandled
    /\ synced = <<>>
    /\ cancelled = FALSE
    /\ faults = 0
    /\ splitInput = <<>>
    /\ splitResult = <<>>
    /\ lookupInput = <<>>
    /\ lookupResult = <<>>
    /\ editTable = <<>>
    /\ cleanInput = NoStatus
    /\ cleanResult = NotCleaned
    /\ client = NewClient

MainNext ==
    \/ MainBegin
    \/ MainDeleteOld
    \/ MainCreate
    \/ MainRollback
    \/ MainSave

MainSpec == MainInit /\ [][MainNext]_vars

\* ----------------------------------------------------------- properties

\* The positions inside ProcessPost
InProcessPost == {"process", "delete", "parent", "create", "rollback", "save"}

\* The positions of Run between two posts: calls holds the calls made for the
\* post in handled.
BetweenPosts == {"select", "batch", "edit", "stopped"}

CreateOps == {"create", "reply"}

\* The calls of ProcessPost that create a part, and those that delete a post
CreateCalls(cs) == SelectSeq(cs, LAMBDA c : c.op \in CreateOps)
DeleteCalls(cs) == SelectSeq(cs, LAMBDA c : c.op = "delete")
RefsOf(cs) == [k \in 1..Len(cs) |-> cs[k].ref]

\* The mapping and the hash of the post were stored for this content.
MirroredAs(id, content) == id \in DOMAIN synced /\ synced[id] = HashOf[content]

\* A step that calls the destination for nothing and writes neither table.
Untouched ==
    /\ created' = created
    /\ live' = live
    /\ calls' = <<>>
    /\ postMappings' = postMappings
    /\ mapOrder' = mapOrder
    /\ contentHashes' = contentHashes

\* The edit check takes the first of its ids.
EditCheckStep == pc = "edit" /\ recentIDs # <<>> /\ recentIDs' = Tail(recentIDs)

\* C1: a post whose mapping and fingerprint are stored for its present content
\* is a no-op when it is observed again, by ProcessPost or by the edit check:
\* the step that handles it creates and deletes nothing on the destination,
\* leaves both tables as they are, and the loop goes on.
C1_ReobservedUnchanged ==
    [][ /\ (pc = "process" /\ pc' # "process"
              /\ MirroredAs(pp.post.id, pp.post.content))
            => (pc' \in {"batch", "edit"} /\ Untouched)
        /\ (EditCheckStep
              /\ MirroredAs(Head(recentIDs), statuses[Head(recentIDs)].content))
            => (pc' = "edit" /\ Untouched) ]_vars

C1_Witness ==
    /\ handled.via = "edit"
    /\ handled.result = "same"
    /\ MirroredAs(handled.id, handled.content)
    /\ \A k \in 1..Len(postMappings[handled.id]) :
          Rkey(postMappings[handled.id][k]) \in live

Returns == pc \in InProcessPost /\ pc' \in {"batch", "edit"}

\* C3: when the create of part k fails, no further part is created, a delete
\* is made for each of the parts 0..k-1 in their order (a failing delete does
\* not end the deletes), ProcessPost returns the error (the cursor stays), and
\* from the first create to the return neither table is written.
C3_FailedCreateRollsBack ==
    /\ [][ /\ (pc \in {"create", "rollback"})
               => /\ postMappings' = postMappings
                  /\ mapOrder' = mapOrder
                  /\ contentHashes' = contentHashes
           /\ (Returns /\ handled'.result = "failed")
               => /\ lastID' = lastID
                  /\ pc' = (IF pp.caller = "new" THEN "batch" ELSE "edit") ]_vars
    /\ [] ((pc \in BetweenPosts /\ handled.result = "failed")
            => LET news == CreateCalls(calls)
                   k == Len(news) - 1
                   n == Len(calls)
               IN /\ k >= 0
                  /\ ~news[k + 1].ok
                  /\ \A j \in 1..k : news[j].ok
                  /\ n > k
                  /\ calls[n - k] = news[k + 1]
                  /\ \A j \in 1..k : /\ calls[n - k + j].op = "delete"
                                     /\ calls[n - k + j].ref = news[j].ref
                  /\ \A j \in 1..k :
                        \A id \in DOMAIN postMappings :
                            \A m \in DOMAIN postMappings[id] :
                                postMappings[id][m] # news[j].ref)

C3_Witness ==
    /\ pc \in BetweenPosts
    /\ handled.result = "failed"
    /\ Len(CreateCalls(calls)) = 3
    /\ calls[Len(calls) - 1].op = "delete"
    /\ ~calls[Len(calls) - 1].ok
    /\ calls[Len(calls)].op = "delete"

\* C4 as the specification states it: once ProcessPost has returned a create
\* error for a post of the new-post batch, the cursor does not reach that post,
\* so that the next poll fetches it again, whatever becomes of the other posts.
C4_FailedPostStaysAhead ==
    [][ (handled.via = "new" /\ handled.result = "failed") => lastID' < handled.id ]_vars

\* C5: a reply leaves the parent resolution either with a parent, taken from
\* the mapping of the parent's id or found by the lookup, or skipped; the skip
\* creates nothing, writes neither table, returns no error (the cursor moves to
\* the post) and the loop goes on.
C5_UnresolvableReplySkipped ==
    [][ (pc = "parent" /\ pc' # "parent" /\ pp.post.inReplyTo # 0)
        => \/ /\ pc' = "create"
              /\ pp'.parent # NoRef
              /\ \/ pp'.parent = ExtRef
                 \/ /\ HasMapping(pp.post.inReplyTo)
                    /\ pp'.parent = postMappings[pp.post.inReplyTo]
                                        [Len(postMappings[pp.post.inReplyTo])]
           \/ /\ Returns
              /\ handled'.result = "noparent"
              /\ handled'.id = pp.post.id
              /\ created' = created
              /\ CreateCalls(calls') = <<>>
              /\ postMappings' = postMappings
              /\ mapOrder' = mapOrder
              /\ contentHashes' = contentHashes
              /\ pc' = (IF pp.caller = "new" THEN "batch" ELSE "edit")
              /\ pp.caller = "new" => lastID' = pp.post.id ]_vars

C5_Witness ==
    /\ pc \in BetweenPosts
    /\ handled.via = "new"
    /\ handled.result = "noparent"
    /\ statuses[handled.id].inReplyTo = Foreign
    /\ lastID = handled.id
    /\ handled.id \notin DOMAIN postMappings
    /\ \A k \in 1..Len(created) : created[k].src # handled.id

\* The content of the post the calls were made for
CallsContent == IF pc \in InProcessPost THEN pp.post.content ELSE handled.content

Ellipsis == <<".", ".", ".">>

\* C6: every text ProcessPost hands to the destination's create is at most
\* 300 characters long: a part longer than that goes out as its first 297
\* characters followed by "...", any other part as it is; so is every record
\* on the destination.
C6_CreatedTextsFit ==
    /\ \A j \in 1..Len(CreateCalls(calls)) :
          LET part == PartsOf[CallsContent][j]
              sent == CreateCalls(calls)[j].text
          IN /\ Len(sent) <= 300
             /\ sent = IF Len(part) > 300 THEN SubSeq(part, 1, 297) \o Ellipsis ELSE part
    /\ \A k \in 1..Len(created) : Len(created[k].text) <= 300

C6_Witness ==
    \E j \in 1..Len(CreateCalls(calls)) :
        /\ Len(PartsOf[CallsContent][j]) > 300
        /\ CreateCalls(calls)[j].ok
        /\ Len(CreateCalls(calls)[j].text) = 300
        /\ SubSeq(CreateCalls(calls)[j].text, 298, 300) = Ellipsis

\* C7 as the specification states it: every part splitContent returns, its
\* " (i/total)" suffix included, is at most 300 characters long.
C7_PartsFit ==
    \A i \in 1..Len(splitResult) : Len(splitResult[i]) <= 300

\* C8 as the specification states it: between two posts, the thread stored in
\* a mapping consists of posts that exist on the destination and that were
\* created from the content whose fingerprint is stored for the post.
C8_MappingsAreLive ==
    pc \in BetweenPosts
        => \A id \in DOMAIN postMappings :
              \A k \in DOMAIN postMappings[id] :
                  LET ref == postMappings[id][k]
                  IN /\ Rkey(ref) \in live
                     /\ id \in DOMAIN contentHashes
                     /\ created[Rkey(ref)].hash = contentHashes[id]

\* C9: among the calls ProcessPost makes for a post, a delete that comes after
\* the first part has been created is the delete of a part created by this very
\* call of ProcessPost: the deletes of the previous thread all come before.
C9_OldDeletesFirst ==
    \A i, j \in 1..Len(calls) :
        (i < j /\ calls[i].op \in CreateOps /\ calls[i].ok /\ calls[j].op = "delete")
            => \E m \in 1..(j - 1) :
                  /\ calls[m].op \in CreateOps
                  /\ calls[m].ok
                  /\ calls[m].ref = calls[j].ref

C9_Witness ==
    /\ pc \in BetweenPosts
    /\ handled.via = "edit"
    /\ \E i, j \in 1..Len(calls) :
          /\ i < j
          /\ calls[i].op = "delete"
          /\ calls[j].op \in CreateOps
          /\ calls[j].ok

\* C10: the parts are created in the order of their indices; the first part is
\* created as a post exactly when no parent was resolved, and as a reply to the
\* resolved parent otherwise; every later part is created as a reply to the
\* record created for the part before it.
C10_ThreadChained ==
    [][ (pc = "create" /\ calls' # calls)
        => LET done == CreateCalls(calls)
               i == Len(done)
               c == calls'[Len(calls')]
           IN /\ calls' = Append(calls, c)
              /\ c.op \in CreateOps
              /\ c.text = Truncate(PartsOf[pp.post.content][i + 1])
              /\ i = 0 => /\ c.op = "create" <=> pp.parent = NoRef
                          /\ c.parent = pp.parent
              /\ i >= 1 => /\ c.op = "reply"
                           /\ done[i].ok
                           /\ c.parent = done[i].ref
              /\ c.ok => /\ created' = Append(created, created'[Len(created')])
                         /\ created'[Len(created')].parent = c.parent
                         /\ created'[Len(created')].text = c.text
                         /\ c.ref = Ref(Len(created')) ]_vars

C10_Witness ==
    /\ pc = "save"
    /\ pp.parent = ExtRef
    /\ Len(calls) = 3
    /\ calls[1].op = "reply" /\ calls[1].parent = ExtRef
    /\ calls[2].op = "reply" /\ calls[2].parent = calls[1].ref
    /\ calls[3].op = "reply" /\ calls[3].parent = calls[2].ref

\* The content with this hash
ContentWith(hash) == CHOOSE c \in Catalog \cup {Oversize} : HashOf[c] = hash

\* C11: every mapping stored is the whole thread one call of ProcessPost
\* created for the post: at least one id, one (uri, cid) pair per part of the
\* content, in the order of creation, each the record created for that part.
C11_MappingIsWholeThread ==
    \A id \in DOMAIN postMappings :
        LET thread == postMappings[id]
            parts == PartsOf[ContentWith(created[Rkey(thread[1])].hash)]
        IN /\ Len(thread) >= 1
           /\ Len(thread) = Len(parts)
           /\ \A k \in 1..Len(thread) :
                /\ thread[k] = Ref(Rkey(thread[k]))
                /\ Rkey(thread[k]) \in 1..Len(created)
                /\ created[Rkey(thread[k])].src = id
                /\ created[Rkey(thread[k])].hash = created[Rkey(thread[1])].hash
                /\ created[Rkey(thread[k])].text = Truncate(parts[k])
                /\ k > 1 => Rkey(thread[k]) = Rkey(thread[k - 1]) + 1

C11_Witness ==
    \E id \in DOMAIN postMappings :
        /\ Len(postMappings[id]) = 3
        /\ \A k \in 1..3 : Rkey(postMappings[id][k]) \in live

\* C12 as the specification states it: no failed call ends the loop or crashes
\* it; the loop is left only at its select, after cancellation.
C12_OnlyCancelEndsLoop ==
    /\ pc # "crashed"
    /\ pc = "stopped" => cancelled

\* C13 as the specification states it: a cancellation that arrives while the
\* parts of a post are being created does not interrupt the creates: with no
\* call failing for another reason, the next part is still created.
C13_CancelLeavesRunAlone ==
    [][ (pc = "create" /\ cancelled /\ Len(CreateCalls(calls)) >= 1
           /\ calls' # calls /\ faults' = faults)
        => /\ calls'[Len(calls')].ok
           /\ Len(created') = Len(created) + 1 ]_vars

\* C14 as the specification states it: once cancellation has arrived during a
\* batch, the loop passes no further post of the batch to ProcessPost.
C14_NoPostAfterCancel ==
    [][ (cancelled /\ pc \in {"batch", "edit"}) => pc' # "process" ]_vars

\* C15 as the specification states it: the cursor never moves backwards: no
\* step lowers the value held in memory or the value saved, whatever posts
\* succeed or fail.
C15_CursorOnlyAdvances ==
    [][ lastID' >= lastID /\ savedLastID' >= savedLastID ]_vars

\* C16 (as amended): when ProcessPost returns without error after it created
\* the parts of the post, or after it found the stored hash equal, the hash
\* stored for the post is the hash of the content it processed, unless a write
\* of that very step failed and left the hashes as they were.
C16_FingerprintIsCurrent ==
    [][ (Returns /\ handled'.result \in {"mirrored", "unchanged"})
        => \/ /\ pp.post.id \in DOMAIN contentHashes'
              /\ contentHashes'[pp.post.id] = HashOf[pp.post.content]
           \/ /\ pc = "save"
              /\ faults' > faults
              /\ contentHashes' = contentHashes ]_vars

C16_Witness ==
    /\ pc \in BetweenPosts
    /\ handled.via = "edit"
    /\ handled.result = "mirrored"
    /\ handled.content = "mid"
    /\ contentHashes[handled.id] = HashOf["mid"]

\* C16 as the specification states it: whenever ProcessPost has gone past its
\* filters for a public post that is no reblog and has returned without error
\* (here: in a run where no call has failed at all), the hash stored for the
\* post is the hash of the content it was called with.
C16_AsStated ==
    (/\ pc \in BetweenPosts
     /\ handled.result \in {"unchanged", "noparent", "mirrored"}
     /\ faults = 0
     /\ ~statuses[handled.id].reblog
     /\ statuses[handled.id].visibility = "public")
        => GetContentHash(handled.id) = HashOf[handled.content]

\* C17 as the specification states it: when ProcessPost skips a reply whose
\* parent cannot be resolved, it has deleted nothing and created nothing at the
\* destination, and what is stored for the post still names records that are
\* there -- also when the post had been mirrored before and has been edited.
C17_SkipChangesNothing ==
    (/\ pc \in BetweenPosts
     /\ handled.result = "noparent"
     /\ faults = 0)
        => /\ calls = <<>>
           /\ handled.id \in DOMAIN postMappings
                => \A k \in 1..Len(postMappings[handled.id]) :
                      Rkey(postMappings[handled.id][k]) \in live

C19_FirstMatchWins ==
    (lookupResult # <<>> /\ lookupInput.fetch /\ lookupInput.auth)
        => LET resp == lookupInput.resp
               r == lookupResult[1]
               ran == Tail(r.lookups)
               n == IF lookupInput.hasContent THEN 6 ELSE 5
               matching == {k \in 1..n : resp[k].out = "hit"}
           IN /\ Len(ran) >= 1
              /\ Len(ran) <= n
              /\ \A k \in 1..Len(ran) : /\ ran[k].name = Resolvers[k]
                                        /\ ran[k].out = resp[k].out
              /\ \A k \in 1..Len(ran) : (ran[k].out # "hit" /\ k < n) => Len(ran) > k
              /\ \A k \in 1..Len(ran) : ran[k].out = "hit" => Len(ran) = k
              /\ \A k \in matching :
                    (\A j \in matching : k <= j)
                        => /\ r.parent = resp[k].ref
                           /\ ~r.skip
                           /\ Len(ran) = k
              /\ matching = {} => /\ r.skip
                                  /\ r.parent = NoRef
                                  /\ Len(ran) = n

\* The canonical handle fails, the second handle misses, the third matches one
\* record and the search would match another: the lookup has run three
\* resolvers and returns the record of the third.
C19_Witness ==
    /\ lookupResult # <<>>
    /\ lookupInput.fetch /\ lookupInput.auth
    /\ lookupInput.resp[1] = Failed
    /\ lookupInput.resp[2] = Miss
    /\ lookupInput.resp[3] = Hit(OtherRef)
    /\ lookupInput.resp[5] = Hit(ExtRef)
    /\ Len(lookupResult[1].lookups) = 4
    /\ lookupResult[1].parent = OtherRef
    /\ ~lookupResult[1].skip

\* Status i is one the bridge is to mirror: published after the start, public,
\* no reblog, no reply, with the filter hashtag.
Eligible(i) ==
    /\ i <= Len(statuses)
    /\ i > startTime
    /\ statuses[i].visibility = "public"
    /\ ~statuses[i].reblog
    /\ statuses[i].inReplyTo = 0
    /\ hasFilterTag(statuses[i])

\* C20: in a run in which no call fails and the new-post tick keeps firing,
\* every status published after the start that is public, no reblog and no
\* reply and carries the filter hashtag gets a row in post_mappings, unless the
\* account takes the hashtag off it first.
C20_EventuallyMirrored ==
    \A i \in 1..MaxPosts : Eligible(i) ~> (HasMapping(i) \/ ~Eligible(i))

\* Two such statuses, the second published while the first was already
\* mirrored, both have their row.
C20_Witness ==
    /\ pc = "select"
    /\ Len(statuses) = 2
    /\ Eligible(1) /\ Eligible(2)
    /\ mapOrder = <<1, 2>>
    /\ savedLastID = 2

\* C21: a call of ProcessPost for a post that is a reblog, is not public or
\* lacks the filter hashtag returns at once, having created nothing and written
\* neither a mapping nor a hash; every record created, mapping saved and hash
\* saved is for a post that is public, no reblog and tagged; a status that is a
\* reblog or not public never has a record, a mapping or a hash.
C21_FilteredNeverMirrored ==
    /\ [][ (/\ pc = "process"
            /\ pc' # "process"
            /\ \/ pp.post.reblog
               \/ pp.post.visibility # "public"
               \/ ~hasFilterTag(pp.post))
           => /\ handled'.result = "skipped"
              /\ handled'.id = pp.post.id
              /\ Untouched
              /\ calls = <<>> ]_vars
    /\ [][ (\/ created' # created
            \/ postMappings' # postMappings
            \/ contentHashes' # contentHashes)
           => /\ pc \in InProcessPost
              /\ ~pp.post.reblog
              /\ pp.post.visibility = "public"
              /\ hasFilterTag(pp.post)
              /\ hasFilterTag(statuses[pp.post.id])
              /\ ~statuses[pp.post.id].reblog
              /\ created' # created => created'[Len(created')].src = pp.post.id
              /\ DOMAIN postMappings' \subseteq DOMAIN postMappings \cup {pp.post.id}
              /\ DOMAIN contentHashes' \subseteq DOMAIN contentHashes \cup {pp.post.id} ]_vars
    /\ [](\A i \in 1..Len(statuses) :
            (statuses[i].reblog \/ statuses[i].visibility # "public")
                => /\ i \notin DOMAIN postMappings
                   /\ i \notin DOMAIN contentHashes
                   /\ \A k \in 1..Len(created) : created[k].src # i)

\* Two statuses have gone through a batch, a reblog and then an untagged one:
\* both were skipped and nothing is created or stored.
C21_Witness ==
    /\ pc = "batch"
    /\ batch = <<>>
    /\ Len(statuses) = 2
    /\ statuses[1].reblog
    /\ statuses[2].hashtags = {}
    /\ lastID = 2
    /\ handled.result = "skipped"
    /\ handled.id = 2
    /\ created = <<>>
    /\ postMappings = <<>>
    /\ contentHashes = <<>>

\* The suffix " (i/total)" taken off part i of total, when the part ends in it
StripSuffix(part, i, total) ==
    LET suffix == Suffix(i, total)
        n == Len(part) - Len(suffix)
    IN IF n >= 0 /\ SubSeq(part, n + 1, Len(part)) = suffix THEN SubSeq(part, 1, n) ELSE part

\* Whether a space was skipped behind each part: the test of "Move to next",
\* made at the cut the loop chose.
RECURSIVE SpaceSkipped(_, _)
SpaceSkipped(remaining, eff) ==
    IF Len(remaining) = 0 THEN <<>>
    ELSE IF Len(remaining) <= eff THEN <<FALSE>>
    ELSE LET bp == breakPoint(remaining, eff)
             skipped == bp < Len(remaining) /\ GoAt(remaining, bp) = " "
             rest == IF skipped THEN GoFrom(remaining, bp + 1) ELSE GoFrom(remaining, bp)
         IN <<skipped>> \o SpaceSkipped(rest, eff)

\* The parts without their suffixes, one after the other, a space behind each
\* part behind which one was skipped.
RECURSIVE Rejoin(_, _, _)
Rejoin(parts, skipped, i) ==
    IF i > Len(parts) THEN <<>>
    ELSE StripSuffix(parts[i], i, Len(parts))
         \o (IF i <= Len(skipped) /\ skipped[i] THEN <<" ">> ELSE <<>>)
         \o Rejoin(parts, skipped, i + 1)

\* C22: for a text longer than 300, the parts splitContent returned, their
\* suffixes taken off, joined in order with the space put back wherever the
\* cut skipped one, are the text again.
C22_RejoinGivesInput ==
    (splitResult # <<>> /\ Len(splitInput) > 300)
        => /\ Len(splitResult) >= 2
           /\ Len(SpaceSkipped(splitInput, effectiveMaxLength(splitInput))) = Len(splitResult)
           /\ Rejoin(splitResult, SpaceSkipped(splitInput, effectiveMaxLength(splitInput)), 1)
                = splitInput

\* A text of three words, its letters differing, has been cut at its second
\* space: two parts, the space behind the first one skipped.
C22_Witness ==
    /\ splitResult # <<>>
    /\ splitInput = Marked(Words(<<146, 147, 147>>))
    /\ Len(splitResult) = 2
    /\ SpaceSkipped(splitInput, effectiveMaxLength(splitInput)) = <<TRUE, FALSE>>
    /\ Len(StripSuffix(splitResult[1], 1, 2)) = 294
    /\ Len(StripSuffix(splitResult[2], 2, 2)) = 147

\* C23: for a text of at most 300 bytes splitContent returns one part, the
\* text itself, with nothing appended.
C23_ShortTextIsOnePart ==
    (splitResult # <<>> /\ Len(splitInput) <= 300) => splitResult = <<splitInput>>

\* A text of exactly 300 bytes has come back as it went in.
C23_Witness ==
    /\ Len(splitInput) = 300
    /\ splitResult = <<splitInput>>

\* Part i of the parts ends in "(i/total)"
EndsNumbered(parts, i) ==
    LET e == Itoa(i) \o <<"/">> \o Itoa(Len(parts)) \o <<")">>
        p == parts[i]
    IN Len(p) > Len(e) /\ SubSeq(p, Len(p) - Len(e), Len(p)) = <<"(">> \o e

\* C24: for a text of 650 bytes splitContent returns three parts or four,
\* depending on where its spaces are, each at most 300 bytes long and part i
\* ending in "(i/n)", n the number of parts; without a space it returns three.
C24_ThreeOrFourParts ==
    (splitResult # <<>> /\ Len(splitInput) = 650)
        => /\ Len(splitResult) \in {3, 4}
           /\ \A i \in 1..Len(splitResult) : /\ Len(splitResult[i]) <= 300
                                             /\ EndsNumbered(splitResult, i)
           /\ (\A k \in 1..650 : splitInput[k] # " ") => Len(splitResult) = 3

\* The text of 650 letters has come back as parts of 300, 300 and 68 bytes.
C24_Witness ==
    /\ splitInput = Word(650)
    /\ Len(splitResult) = 3
    /\ Len(splitResult[1]) = 300 /\ Len(splitResult[2]) = 300 /\ Len(splitResult[3]) = 68
    /\ EndsNumbered(splitResult, 1) /\ EndsNumbered(splitResult, 2)
    /\ EndsNumbered(splitResult, 3)

\* C24 as the specification states it: whatever the places of its spaces, a
\* text of 650 bytes comes back as exactly three parts, each at most 300 bytes
\* long, ending in "(1/3)", "(2/3)" and "(3/3)".
C24_AsStated ==
    (splitResult # <<>> /\ Len(splitInput) = 650)
        => /\ Len(splitResult) = 3
           /\ \A i \in 1..3 : /\ Len(splitResult[i]) <= 300
                              /\ EndsNumbered(splitResult, i)


\* The old records a finished ProcessPost tried to delete: the DeletePost calls
\* whose record belongs to the thread stored at entry.
OldDeletes == SelectSeq(calls, LAMBDA c : c.op = "delete" /\ \E k \in DOMAIN pp.stored : pp.stored[k] = c.ref)

BatchRunning == pc \in {"batch", "edit"} \cup InProcessPost

\* A tick is handled: Run takes a new batch of posts or of ids (the loops only
\* take the next one off the batch they have).
TickHandled ==
    \/ batch' # batch /\ (batch = <<>> \/ batch' # SubSeq(batch, 1, Len(batch) - 1))
    \/ recentIDs' # recentIDs /\ (recentIDs = <<>> \/ recentIDs' # Tail(recentIDs))

\* C26: at most one post is being processed at any time; the new-post batch
\* and the edit-check batch never overlap, and a tick is handled only when no
\* batch is running.
C26_OneBatchAtATime ==
    /\ [](/\ ~(batch # <<>> /\ recentIDs # <<>>)
          /\ (pc \in InProcessPost =>
                /\ pp.post.id # 0
                /\ (pp.caller = "new" => recentIDs = <<>>)
                /\ (pp.caller = "edit" => batch = <<>>))
          /\ (pc \notin InProcessPost => pp = Idle)
          /\ (pc = "batch" => recentIDs = <<>>)
          /\ (pc = "edit" => batch = <<>>)
          /\ (pc \in {"select", "stopped"} => batch = <<>> /\ recentIDs = <<>>))
    /\ [][TickHandled => ~BatchRunning /\ pp = Idle]_vars

\* The edit check has handed a post to ProcessPost, after the new-post batch
\* that mirrored it has finished.
C26_Witness ==
    /\ pc = "process"
    /\ pp.caller = "edit"
    /\ HasMapping(pp.post.id)
    /\ batch = <<>>

\* C27: the content "Hello #test world" with the hashtag "test", of a status
\* that is not a reply, is cleaned to "Hello world".
C27_HelloWorld ==
    (/\ cleanResult.done
     /\ cleanInput.content = Hello \o <<" ", "#">> \o test \o <<" ">> \o world
     /\ cleanInput.tags = <<test>>
     /\ ~isReply(cleanInput.inReplyToID))
        => cleanResult.content = Hello \o <<" ">> \o world

C27_Witness ==
    /\ cleanResult.done
    /\ cleanInput.content = Hello \o <<" ", "#">> \o test \o <<" ">> \o world
    /\ cleanInput.tags = <<test>>
    /\ cleanInput.inReplyToID = String("")
    /\ Len(cleanResult.content) = 11

\* C28: the content made of a status without a parent keeps its leading
\* mentions: it is the content cleaned without the step for replies.
C28_MentionsKeptWithoutParent ==
    (cleanResult.done /\ cleanInput.inReplyToID = Nil)
        => cleanResult.content = cleanHTML(cleanInput.content, cleanInput.tags, FALSE)

\* C29: within a new-post batch the posts go to ProcessPost oldest first, so a
\* reply is handed over only after its parent of the same batch; when that
\* parent was mirrored and its mapping saved just before, and the mapping is
\* read, the reply takes the last part of that thread as its parent and makes
\* no lookup on Bluesky.
C29_ParentBeforeReply ==
    /\ [][ (pc = "batch" /\ pc' = "process")
           => \A k \in DOMAIN batch' :
                /\ batch'[k].id > pp'.post.id
                /\ batch'[k].id # pp'.post.inReplyTo ]_vars
    /\ [][ (/\ pc = "parent"
            /\ pc' # "parent"
            /\ pp.caller = "new"
            /\ pp.post.inReplyTo = handled.id
            /\ handled.via = "new"
            /\ handled.result = "mirrored"
            /\ handled.clean
            /\ faults' = faults)
           => /\ HasMapping(handled.id)
              /\ \A k \in DOMAIN postMappings[handled.id] :
                    created[Rkey(postMappings[handled.id][k])].src = handled.id
              /\ lookups' = <<>>
              /\ pc' = "create"
              /\ pp'.parent = LastOf(postMappings[handled.id]) ]_vars

\* A reply is about to be created under the last part of its parent, which was
\* mirrored just before it in the same batch.
C29_Witness ==
    /\ pc = "create"
    /\ pp.caller = "new"
    /\ pp.post.inReplyTo # 0
    /\ pp.post.inReplyTo = handled.id
    /\ handled.via = "new"
    /\ handled.result = "mirrored"
    /\ HasMapping(handled.id)
    /\ Len(postMappings[handled.id]) > 1
    /\ pp.parent = LastOf(postMappings[handled.id])
    /\ lookups = <<>>

\* C29 as stated: whenever a reply is handed to ProcessPost after its parent of
\* the same batch, the parent's mapping has been written.
C29_AsStated ==
    [][ (/\ pc = "batch"
         /\ pc' = "process"
         /\ faults = 0
         /\ handled.via = "new"
         /\ handled.id # 0
         /\ pp'.post.inReplyTo = handled.id)
        => HasMapping(handled.id) ]_vars

\* C30: in a new-post batch the cursor in memory moves to a post exactly when
\* ProcessPost returned no error for it and moves at no other step; at the end
\* of a batch that had a post the value handed to SaveLastSeenID is that
\* cursor -- the id of the last post without error, the cursor from before the
\* batch when every post failed -- and the stored value becomes it or, when the
\* save fails, stays; the save leaves the cursor in memory alone.
C30_SavedCursorIsLastSuccess ==
    /\ [][ (pc \in InProcessPost /\ pc' = "batch")
           => lastID' = IF handled'.result = "failed" THEN lastID ELSE pp.post.id ]_vars
    /\ [][ lastID' # lastID => (pc \in InProcessPost /\ pc' = "batch") ]_vars
    /\ [][ (pc = "batch" /\ pc' = "select")
           => /\ handled.id # 0
              /\ handled.result # "failed" => lastID = handled.id
              /\ lastID' = lastID
              /\ savedLastID' = (IF faults' = faults THEN lastID ELSE savedLastID) ]_vars
    /\ [][ savedLastID' # savedLastID => (pc = "batch" /\ pc' = "select") ]_vars

\* A batch of two posts is over: post 2 was tried and rolled back, and the
\* cursor, in memory and stored, is the id of post 1.
C30_Witness ==
    /\ pc = "select"
    /\ Len(statuses) = 2
    /\ lastID = 1
    /\ savedLastID = 1
    /\ HasMapping(1)
    /\ ~HasMapping(2)
    /\ \E k \in DOMAIN created : created[k].src = 2 /\ k \notin live

\* The spaces of remaining at the indices W/2 .. W
WindowSpaces(remaining, W) == {i \in (W \div 2)..W : GoAt(remaining, i) = " "}

\* The parts as the rule gives them: a text longer than W is cut at the last
\* space of W/2 .. W, which is dropped, or at W when there is no such space.
RECURSIVE RuleParts(_, _)
RuleParts(remaining, W) ==
    IF Len(remaining) = 0 THEN <<>>
    ELSE IF Len(remaining) <= W THEN <<remaining>>
    ELSE LET spaces == WindowSpaces(remaining, W)
             last == CHOOSE i \in spaces : \A j \in spaces : j <= i
         IN IF spaces # {}
            THEN <<GoTo(remaining, last)>> \o RuleParts(GoFrom(remaining, last + 1), W)
            ELSE <<GoTo(remaining, W)>> \o RuleParts(GoFrom(remaining, W), W)

\* C31: the parts splitContent returns for a text longer than 300, their
\* suffixes taken off, are the parts of the rule: each part but the last ends
\* at the last space at an index of W/2 .. W, that space dropped, or at index W
\* when there is no space there, the next part starting with the character at W.
C31_CutAtLastSpaceOrAtW ==
    (splitResult # <<>> /\ Len(splitInput) > maxLength)
        => LET W == effectiveMaxLength(splitInput)
           IN [i \in 1..Len(splitResult) |->
                 StripSuffix(splitResult[i], i, Len(splitResult))] = RuleParts(splitInput, W)

\* A word of 200, a space and a word of 449 have been cut at the space, then
\* the second word at W = 294.
C31_Witness ==
    /\ splitResult # <<>>
    /\ splitInput = Words(<<200, 449>>)
    /\ Len(splitResult) = 3
    /\ StripSuffix(splitResult[1], 1, 3) = Word(200)
    /\ StripSuffix(splitResult[2], 2, 3) = Word(294)
    /\ StripSuffix(splitResult[3], 3, 3) = Word(155)

\* The first request of the last operation was createSession
AuthSent(c) == c.sent # <<>> /\ c.sent[1].name = "createSession"

\* C32: an operation of the client requests createSession exactly when no
\* token is held or the time has reached the token's expiry; when that request
\* fails the operation returns an error, sends nothing else and leaves token,
\* did and expiry as they were; otherwise it sends its one request with the
\* token now held.
C32_AuthFirst ==
    [][ client'.now = client.now
        => /\ client'.op \in ClientOps
           /\ AuthSent(client') <=> (client.accessJwt = 0 \/ client.now >= client.expiresAt)
           /\ (AuthSent(client') /\ ~client'.sent[1].ok)
                => /\ client'.err
                   /\ Len(client'.sent) = 1
                   /\ client'.accessJwt = client.accessJwt
                   /\ client'.did = client.did
                   /\ client'.expiresAt = client.expiresAt
           /\ ~(AuthSent(client') /\ ~client'.sent[1].ok)
                => /\ client'.sent[Len(client'.sent)]
                        = Request(client'.op, client'.accessJwt, ~client'.err)
                   /\ Len(client'.sent) = IF AuthSent(client') THEN 2 ELSE 1
                   /\ client'.accessJwt # 0
                   /\ client'.now < client'.expiresAt
           /\ ~AuthSent(client')
                => /\ client'.accessJwt = client.accessJwt
                   /\ client'.did = client.did
                   /\ client'.expiresAt = client.expiresAt ]_vars

\* A delete was called with an expired token held; createSession failed, the
\* delete was not sent and the expired token is still held.
C32_Witness ==
    /\ client.op = "DeletePost"
    /\ client.err
    /\ client.sent = <<Request("createSession", 0, FALSE)>>
    /\ client.accessJwt # 0
    /\ client.did = AccountDID
    /\ client.now >= client.expiresAt

\* C33: once ctx is cancelled Run comes to return ctx.Err(), whatever the
\* tickers do; after it has returned nothing is fetched, handed to ProcessPost
\* or written, and after the cancellation no new-post batch is taken.
C33_CancelEndsRun ==
    /\ cancelled ~> pc = "stopped"
    /\ [][ pc = "stopped" => UNCHANGED <<pc, batch, recentIDs, pp, dstVars, dbVars, lastID>> ]_vars
    /\ [][ cancelled => (batch' = batch \/ Len(batch') < Len(batch)) ]_vars

\* Run has returned after a cancellation that arrived while the parts of a
\* post were being created: a part made before it is no longer mapped.
C33_Witness ==
    /\ pc = "stopped"
    /\ cancelled
    /\ \E k \in DOMAIN created : ~HasMapping(created[k].src)

\* C34: when a ProcessPost called by the new-post loop returns without error --
\* the post mirrored, found unchanged, or skipped as reblog, non-public,
\* without the filter hashtag or with an unresolvable parent -- the cursor
\* becomes the post's id; the cursor never goes back, and every post of a
\* batch, when it is fetched and while it waits, is newer than the cursor: such
\* a post is never fetched again.
C34_SkippedPostsPassTheCursor ==
    /\ [][ (pc \in InProcessPost /\ pc' = "batch" /\ handled'.result # "failed")
           => /\ handled'.result \in {"skipped", "noparent", "unchanged", "mirrored"}
              /\ lastID' = pp.post.id ]_vars
    /\ [][ lastID' >= lastID ]_vars
    /\ [](\A k \in DOMAIN batch : batch[k].id > lastID)

\* Status 1, a reblog, went through ProcessPost in a batch of its own and the
\* cursor was saved as 1; a later poll has fetched status 2 alone.
C34_Witness ==
    /\ Len(statuses) = 2
    /\ statuses[1].reblog
    /\ savedLastID = 1
    /\ pc = "process"
    /\ pp.caller = "new"
    /\ pp.post.id = 2
    /\ batch = <<>>

\* The DeletePost calls of the running ProcessPost that are no clean-up of
\* parts it made itself
PreviousDeletes ==
    SelectSeq(calls, LAMBDA c : c.op = "delete"
                                /\ \A k \in DOMAIN pp.bskyIDs : pp.bskyIDs[k] # c.ref)

\* C35: the hash-based ProcessPost tries to delete a previous thread only when
\* it read a stored hash for the post and that hash differs from the new one;
\* when no hash is stored or GetContentHash failed it goes on to the parent and
\* the creates without a delete, whether a mapping exists for the post or not.
C35_DeleteOnlyOnChangedHash ==
    /\ []((pc \in InProcessPost /\ (pc = "delete" \/ PreviousDeletes # <<>>))
            => /\ pp.existingHash # NoHash
               /\ pp.existingHash # pp.contentHash
               /\ pp.existingHash = GetContentHash(pp.post.id))
    /\ []((pc \in {"parent", "create", "save"} /\ pp.existingHash = NoHash)
            => DeleteCalls(calls) = <<>>)
    /\ [][ (pc = "process" /\ pc' \in InProcessPost /\ pc' # "process"
              /\ pp'.existingHash = NoHash)
           => pc' = "parent" ]_vars

\* The edit check handed over a post that has a mapping and a stored hash; the
\* read of the hash failed in ProcessPost, and the new thread has been created
\* with the old one never touched.
C35_Witness ==
    /\ pc = "save"
    /\ pp.caller = "edit"
    /\ HasMapping(pp.post.id)
    /\ GetContentHash(pp.post.id) # NoHash
    /\ pp.existingHash = NoHash
    /\ DeleteCalls(calls) = <<>>
    /\ CreateCalls(calls) # <<>>
    /\ \A k \in DOMAIN postMappings[pp.post.id] : Rkey(postMappings[pp.post.id][k]) \in live

\* The record is named by a row of post_mappings.
Referenced(ref, mappings) ==
    \E id \in DOMAIN mappings : \E k \in DOMAIN mappings[id] : mappings[id][k] = ref

\* A record that is on the destination, is named by no row and is no part the
\* running ProcessPost has just made
Orphan(k) ==
    /\ k \in live
    /\ ~Referenced(Ref(k), postMappings)
    /\ \A j \in DOMAIN pp.bskyIDs : pp.bskyIDs[j] # Ref(k)

\* C36: a failed DeletePost of a part of the previous thread does not end
\* ProcessPost: the loop goes on to the next id or to the parent; when the new
\* thread is then created and both saves succeed, the row of the post holds the
\* new thread alone, the part that was not deleted is still on the destination
\* and no row names it; and a record that is on the destination and named by
\* no row stays so.
C36_FailedDeleteLeavesOrphan ==
    /\ [][ (pc = "delete" /\ calls' # calls /\ ~calls'[Len(calls')].ok)
           => /\ pc' \in {"delete", "parent"}
              /\ live' = live
              /\ postMappings' = postMappings ]_vars
    /\ [][ (pc = "save" /\ pc' # "save" /\ faults' = faults)
           => /\ postMappings'[pp.post.id] = pp.bskyIDs
              /\ \A k \in DOMAIN calls :
                    (calls[k].op = "delete" /\ ~calls[k].ok /\ Rkey(calls[k].ref) \in live)
                        => /\ Rkey(calls[k].ref) \in live'
                           /\ ~Referenced(calls[k].ref, postMappings') ]_vars
    /\ [][ \A k \in DOMAIN created : Orphan(k) => Orphan(k)' ]_vars

\* An edited post has been mirrored again after the delete of its old part
\* failed: the old part is on the destination and no row names it.
C36_Witness ==
    /\ pc \in BetweenPosts
    /\ handled.result = "mirrored"
    /\ \E k \in DOMAIN calls :
          /\ calls[k].op = "delete"
          /\ ~calls[k].ok
          /\ Orphan(Rkey(calls[k].ref))
          /\ created[Rkey(calls[k].ref)].src = handled.id
    /\ \A k \in DOMAIN postMappings[handled.id] : Rkey(postMappings[handled.id][k]) \in live

\* The posts of the maxCount rows of post_mappings written last.
MostRecent(maxCount) ==
    {mapOrder[k] : k \in {j \in DOMAIN mapOrder : j > Len(mapOrder) - maxCount}}

\* The records a step creates on the destination or deletes from it.
Touched == {k \in DOMAIN created' : k \notin DOMAIN created \/ (k \in live /\ k \notin live')}

C38_OlderThanStartNeverMirrored ==
    /\ [](\A k \in DOMAIN batch : batch[k].id > startTime)
    /\ []((pc \in InProcessPost /\ pp.caller = "new") => pp.post.id > startTime)
    /\ [](\A k \in DOMAIN created : created[k].src > startTime)
    /\ [](\A id \in DOMAIN postMappings : id > startTime)
    /\ [][ (pc \in InProcessPost /\ pc' = "batch" /\ handled'.result # "failed")
           => /\ lastID' = pp.post.id
              /\ lastID' > startTime ]_vars
    /\ [][ lastID > startTime => lastID' > startTime ]_vars
    /\ [][ savedLastID' # savedLastID => savedLastID' = lastID ]_vars

\* The account had one status when the bridge was first started and published
\* another afterwards: the second is mirrored and the cursor, in memory and
\* saved, is its id; the first, newer than the empty cursor the run began
\* with, has no record and no row.
C38_Witness ==
    /\ startTime = 1
    /\ Len(statuses) = 2
    /\ pc = "select"
    /\ lastID = 2
    /\ savedLastID = 2
    /\ HasMapping(2)
    /\ ~HasMapping(1)
    /\ \A k \in DOMAIN created : created[k].src = 2
    /\ created # <<>>

\* The records the running ProcessPost has created, in their order
Made == RefsOf(SelectSeq(CreateCalls(calls), LAMBDA c : c.ok))

\* C39: every record created as a reply has a root equal to its parent, cid and
\* uri both, and a record created by CreatePost has neither; the parent of the
\* second and of every later part a ProcessPost creates is the part it created
\* just before, so the root of the third and of every later part is the part
\* before it and not the first part of the thread.
C39_RootIsParent ==
    /\ [](\A k \in DOMAIN created : created[k].root = created[k].parent)
    /\ [](\A j \in DOMAIN Made :
            LET record == created[Rkey(Made[j])]
            IN /\ j >= 2 => record.parent = Made[j - 1]
               /\ j >= 3 => record.root = Made[j - 1] /\ record.root # Made[1])
    /\ [][ \A k \in DOMAIN calls' :
              (k \notin DOMAIN calls /\ calls'[k].ok /\ calls'[k].op \in CreateOps)
                  => /\ created'[Len(created')].root = calls'[k].parent
                     /\ calls'[k].op = "create" <=> created'[Len(created')].root = NoRef ]_vars

\* A thread of three parts is on the destination: the root of the third part
\* is the second part.
C39_Witness ==
    /\ pc \in BetweenPosts
    /\ handled.result = "mirrored"
    /\ Len(Made) = 3
    /\ \A j \in 1..3 : Rkey(Made[j]) \in live
    /\ created[Rkey(Made[1])].root = NoRef
    /\ created[Rkey(Made[2])].root = Made[1]
    /\ created[Rkey(Made[3])].root = Made[2]

\* The values of remaining at the head of the turns of the loop
\* "for len(remaining) > 0", in their order
RECURSIVE Remainders(_, _)
Remainders(remaining, eff) ==
    IF Len(remaining) = 0 THEN <<>>
    ELSE IF Len(remaining) <= eff THEN <<remaining>>
    ELSE <<remaining>> \o Remainders(NextRemaining(remaining, breakPoint(remaining, eff)), eff)

\* The number of characters turn i of the loop takes from the text: what was
\* there at its head less what is there at the head of the next turn (nothing,
\* after the last turn).
Removed(rs, i) == Len(rs[i]) - (IF i < Len(rs) THEN Len(rs[i + 1]) ELSE 0)

\* C40: splitContent returns for every input; every turn of its loop that cuts
\* (the text left is longer than W, W = 300 less the reserved suffix size)
\* takes at least W/2 characters from the text left, so the turns are at most
\* len/(W/2) + 1; the turn that takes a text of at most W as the last part ends
\* the loop; and every part is non-empty before its suffix is appended.
C40_SplitTerminates ==
    (splitResult # <<>> /\ Len(splitInput) > maxLength)
        => LET W == effectiveMaxLength(splitInput)
               rs == Remainders(splitInput, W)
               n == Len(splitResult)
           IN /\ W \div 2 > 0
              /\ \A i \in DOMAIN rs : Len(rs[i]) > W => Removed(rs, i) >= W \div 2
              /\ \A i \in DOMAIN rs : Len(rs[i]) <= W => i = Len(rs) /\ Removed(rs, i) > 0
              /\ n = Len(rs)
              /\ n <= Len(splitInput) \div (W \div 2) + 1
              /\ \A i \in 1..n : Len(StripSuffix(splitResult[i], i, n)) > 0
              /\ \A i \in 1..n : StripSuffix(splitResult[i], i, n) \o Suffix(i, n) = splitResult[i]

\* A word of 650 has been cut twice at W = 294; the last turn took the 62
\* characters left.
C40_Witness ==
    /\ splitInput = Word(650)
    /\ Len(splitResult) = 3
    /\ Len(StripSuffix(splitResult[1], 1, 3)) = 294
    /\ Len(StripSuffix(splitResult[2], 2, 3)) = 294
    /\ Len(StripSuffix(splitResult[3], 3, 3)) = 62

\* C40 as stated: every turn of the loop takes at least W/2 characters.
C40_AsStated ==
    (splitResult # <<>> /\ Len(splitInput) > maxLength)
        => LET W == effectiveMaxLength(splitInput)
               rs == Remainders(splitInput, W)
           IN \A i \in DOMAIN rs : Removed(rs, i) >= W \div 2

====
